---- MODULE Spec2Model ----
(***************************************************************************)
(* A model of the agent-flow orchestration engine: the tool registry, the  *)
(* reference resolver, the linear executor and its state-graph variant,    *)
(* the ReAct loop and the structured (JSON) decoder.                       *)
(*                                                                         *)
(* Texts are sequences of one-character strings.  Python values are        *)
(* tagged records (VNull, VBool, VNum, VStr, VDict, VList); a dict is the  *)
(* sequence of its <<key, value>> pairs in insertion order.  Exceptions    *)
(* are records [ok |-> FALSE, err |-> message]; a message is kept as a     *)
(* record of its format and the values formatted into it.                  *)
(***************************************************************************)
EXTENDS Integers, Sequences, FiniteSets, TLC

VARIABLES
    pc,           \* where the component under study stands
    rsValue,      \* resolver: the parameter string handed to _resolve_value
    context,      \* ExecutionContext: [step_results, variables]
    rsOut,        \* resolver: what _resolve_value returned or raised
    rsParams,     \* resolver: the parameters handed to _resolve_parameters
    rsResolved,   \* resolver: what _resolve_parameters returned or raised
    tools,        \* ToolRegistry._tools: <<name, tool>> pairs in insertion order
    execLog,      \* every call of a tool's execute: [call, tool, params]
    registered,   \* the tools handed to register, in call order
    callCount,    \* registry: the number of execute_tool calls made
    lastCall,     \* registry: the latest execute_tool call and its result
    mode,         \* which executor runs the plan: "linear" or "graph"
    plan,         \* the plan's steps, in list order
    idx,          \* linear executor: the position of the step the loop is at
    produced,     \* linear executor: the results _execute_step returned, in order
    gstate,       \* state-graph variant: the AgentState
    returned,     \* what the run returned
    made,         \* decoder: how the oracle made its answer
    chatOut,      \* decoder: what the oracle call (self.chat) returned or raised
    decoded,      \* decoder: what chat_with_json returned or raised
    react,        \* ReAct: the locals of run and the ReActResult it builds
    asked,        \* ReAct: what each oracle call returned or raised, in order
    runs          \* interleaving: the two runs that share the registry

resolverVars == <<rsValue, rsOut, rsParams, rsResolved>>

registryVars == <<tools, execLog, registered>>

callVars == <<callCount, lastCall>>

execVars == <<mode, plan, idx, produced, gstate, returned>>

decodeVars == <<made, chatOut, decoded>>

reactVars == <<react, asked>>

pairVars == <<runs>>

vars ==
    <<pc, context, resolverVars, registryVars, callVars, execVars, decodeVars,
      reactVars, pairVars>>

-----------------------------------------------------------------------------
(* Text primitives (Python str methods and the re module, on texts).       *)

Digits == <<"0", "1", "2", "3", "4", "5", "6", "7", "8", "9">>

\* str.isspace(), as str.strip() and the regex class \s use it
IsSpace(c) == c \in {" ", "\t", "\n", "\r", "\f", "U+001f"}

IsDigit(c) == \E d \in 1..10 : Digits[d] = c

DigitVal(c) == (CHOOSE d \in 1..10 : Digits[d] = c) - 1

RECURSIVE LStrip(_)
LStrip(s) == IF s # <<>> /\ IsSpace(Head(s)) THEN LStrip(Tail(s)) ELSE s

RECURSIVE RStrip(_)
RStrip(s) ==
    IF s # <<>> /\ IsSpace(s[Len(s)]) THEN RStrip(SubSeq(s, 1, Len(s) - 1)) ELSE s

\* str.strip()
Strip(s) == RStrip(LStrip(s))

\* s[i:] starts with p (i is a 1-based index)
StartsWithAt(s, p, i) ==
    /\ i >= 1
    /\ i + Len(p) - 1 <= Len(s)
    /\ SubSeq(s, i, i + Len(p) - 1) = p

StartsWith(s, p) == StartsWithAt(s, p, 1)

EndsWith(s, p) == Len(p) <= Len(s) /\ SubSeq(s, Len(s) - Len(p) + 1, Len(s)) = p

\* s[i:] (1-based)
From(s, i) == SubSeq(s, i, Len(s))

\* str.find(p, i): the first index >= i where p occurs, 0 when there is none
RECURSIVE Find(_, _, _)
Find(s, p, i) ==
    IF i + Len(p) - 1 > Len(s) THEN 0
    ELSE IF StartsWithAt(s, p, i) THEN i
    ELSE Find(s, p, i + 1)

\* str.replace(old, new) for a non-empty old: every non-overlapping
\* occurrence, left to right
RECURSIVE Replace(_, _, _)
Replace(s, old, new) ==
    IF s = <<>> THEN <<>>
    ELSE IF StartsWith(s, old) THEN new \o Replace(From(s, Len(old) + 1), old, new)
    ELSE <<Head(s)>> \o Replace(Tail(s), old, new)

\* str.split(sep) for a one-character sep
RECURSIVE SplitAcc(_, _, _)
SplitAcc(s, sep, cur) ==
    IF s = <<>> THEN <<cur>>
    ELSE IF Head(s) = sep THEN <<cur>> \o SplitAcc(Tail(s), sep, <<>>)
    ELSE SplitAcc(Tail(s), sep, Append(cur, Head(s)))

Split(s, sep) == SplitAcc(s, sep, <<>>)

\* sep.join(parts)
RECURSIVE Join(_, _)
Join(parts, sep) ==
    IF parts = <<>> THEN <<>>
    ELSE IF Len(parts) = 1 THEN parts[1]
    ELSE parts[1] \o sep \o Join(Tail(parts), sep)

RECURSIVE Concat(_)
Concat(parts) == IF parts = <<>> THEN <<>> ELSE Head(parts) \o Concat(Tail(parts))

\* the decimal digits of a natural number
RECURSIVE NatText(_)
NatText(n) ==
    IF n < 10 THEN <<Digits[n + 1]>> ELSE NatText(n \div 10) \o <<Digits[(n % 10) + 1]>>

\* str(n) for an int
IntText(n) == IF n < 0 THEN <<"-">> \o NatText(-n) ELSE NatText(n)

RECURSIVE DigitsVal(_, _)
DigitsVal(s, acc) ==
    IF s = <<>> THEN acc ELSE DigitsVal(Tail(s), acc * 10 + DigitVal(Head(s)))

\* int(s): surrounding whitespace and a sign are accepted, then decimal
\* digits; anything else raises ValueError
ParseInt(s) ==
    LET t == Strip(s)
        neg == t # <<>> /\ Head(t) = "-"
        u == IF t # <<>> /\ Head(t) \in {"-", "+"} THEN Tail(t) ELSE t
    IN IF u # <<>> /\ \A i \in 1..Len(u) : IsDigit(u[i])
       THEN [ok |-> TRUE, val |-> IF neg THEN -DigitsVal(u, 0) ELSE DigitsVal(u, 0)]
       ELSE [ok |-> FALSE, err |-> [msg |-> "invalid literal for int()", text |-> s]]

-----------------------------------------------------------------------------
(* Python values.                                                          *)

VNull == [k |-> "null"]
VBool(b) == [k |-> "bool", v |-> b]
VNum(n) == [k |-> "num", v |-> n]
VStr(s) == [k |-> "str", v |-> s]
VDict(pairs) == [k |-> "dict", v |-> pairs]
VList(items) == [k |-> "list", v |-> items]

\* d.get(key) on the pairs of a dict: None when the key is absent
DictHas(pairs, key) == \E i \in 1..Len(pairs) : pairs[i][1] = key

DictGet(pairs, key) ==
    IF DictHas(pairs, key)
    THEN pairs[CHOOSE i \in 1..Len(pairs) : pairs[i][1] = key][2]
    ELSE VNull

\* d[key] = value: an existing key keeps its place, a new key goes last
DictSet(pairs, key, value) ==
    IF DictHas(pairs, key)
    THEN [i \in 1..Len(pairs) |->
            IF pairs[i][1] = key THEN <<key, value>> ELSE pairs[i]]
    ELSE Append(pairs, <<key, value>>)

-----------------------------------------------------------------------------
(* Text forms of values: json.dumps, str and repr.                         *)
(* A control character that TLA+ cannot write is the string "U+" followed  *)
(* by its four lower-case hex digits, e.g. "U+0008" for backspace; the     *)
(* backquote is "U+0060".                                                   *)

HexDigits == <<"0", "1", "2", "3", "4", "5", "6", "7", "8", "9",
               "a", "b", "c", "d", "e", "f">>

UpperHex == <<"A", "B", "C", "D", "E", "F">>

IsHex(c) == (\E i \in 1..16 : HexDigits[i] = c) \/ (\E i \in 1..6 : UpperHex[i] = c)

LowerHex(c) ==
    IF \E i \in 1..6 : UpperHex[i] = c
    THEN HexDigits[10 + CHOOSE i \in 1..6 : UpperHex[i] = c]
    ELSE c

\* the control characters below U+0020 the texts use, with their hex digits
ControlChars ==
    << [c |-> "U+0001", hex |-> <<"0", "0", "0", "1">>],
       [c |-> "U+0008", hex |-> <<"0", "0", "0", "8">>],
       [c |-> "\t",     hex |-> <<"0", "0", "0", "9">>],
       [c |-> "\n",     hex |-> <<"0", "0", "0", "a">>],
       [c |-> "\f",     hex |-> <<"0", "0", "0", "c">>],
       [c |-> "\r",     hex |-> <<"0", "0", "0", "d">>],
       [c |-> "U+001f", hex |-> <<"0", "0", "1", "f">>] >>

\* ord(c) < 32
IsControl(c) == \E i \in 1..Len(ControlChars) : ControlChars[i].c = c

ControlHex(c) == ControlChars[CHOOSE i \in 1..Len(ControlChars) : ControlChars[i].c = c].hex

\* json.encoder.py_encode_basestring: one character of a string literal
JsonEscapeChar(c) ==
    IF c = "\"" THEN <<"\\", "\"">>
    ELSE IF c = "\\" THEN <<"\\", "\\">>
    ELSE IF c = "\n" THEN <<"\\", "n">>
    ELSE IF c = "\r" THEN <<"\\", "r">>
    ELSE IF c = "\t" THEN <<"\\", "t">>
    ELSE IF c = "\f" THEN <<"\\", "f">>
    ELSE IF c = "U+0008" THEN <<"\\", "b">>
    ELSE IF IsControl(c) THEN <<"\\", "u">> \o ControlHex(c)
    ELSE <<c>>

RECURSIVE JsonEscape(_)
JsonEscape(s) == IF s = <<>> THEN <<>> ELSE JsonEscapeChar(Head(s)) \o JsonEscape(Tail(s))

JsonStringText(s) == <<"\"">> \o JsonEscape(s) \o <<"\"">>

\* json.dumps(value, ensure_ascii=False): separators ", " and ": ".  A float
\* is written as mantissa and exponent, a text that reads back as the same
\* value (float.__repr__'s choice of digits is left out).
RECURSIVE JsonDumps(_)
RECURSIVE JsonDumpsPairs(_)
RECURSIVE JsonDumpsItems(_)
JsonDumps(x) ==
    CASE x.k = "null" -> <<"n", "u", "l", "l">>
      [] x.k = "bool" -> IF x.v THEN <<"t", "r", "u", "e">> ELSE <<"f", "a", "l", "s", "e">>
      [] x.k = "num"  -> IntText(x.v)
      [] x.k = "float" -> IntText(x.m) \o <<"e">> \o IntText(x.e)
      [] x.k = "nan"  -> <<"N", "a", "N">>
      [] x.k = "inf"  -> (IF x.sign < 0 THEN <<"-">> ELSE <<>>)
                         \o <<"I", "n", "f", "i", "n", "i", "t", "y">>
      [] x.k = "str"  -> JsonStringText(x.v)
      [] x.k = "dict" -> <<"{">> \o JsonDumpsPairs(x.v) \o <<"}">>
      [] x.k = "list" -> <<"[">> \o JsonDumpsItems(x.v) \o <<"]">>

JsonDumpsPairs(pairs) ==
    IF pairs = <<>> THEN <<>>
    ELSE JsonStringText(pairs[1][1]) \o <<":", " ">> \o JsonDumps(pairs[1][2])
         \o (IF Len(pairs) > 1 THEN <<",", " ">> \o JsonDumpsPairs(Tail(pairs)) ELSE <<>>)

JsonDumpsItems(items) ==
    IF items = <<>> THEN <<>>
    ELSE JsonDumps(items[1])
         \o (IF Len(items) > 1 THEN <<",", " ">> \o JsonDumpsItems(Tail(items)) ELSE <<>>)

\* repr(s) of a str: single quotes unless s holds ' and no "
ReprEscapeChar(c, quote) ==
    IF c = "\\" THEN <<"\\", "\\">>
    ELSE IF c = quote THEN <<"\\", c>>
    ELSE IF c = "\n" THEN <<"\\", "n">>
    ELSE IF c = "\r" THEN <<"\\", "r">>
    ELSE IF c = "\t" THEN <<"\\", "t">>
    ELSE IF IsControl(c) THEN <<"\\", "x">> \o SubSeq(ControlHex(c), 3, 4)
    ELSE <<c>>

RECURSIVE ReprEscape(_, _)
ReprEscape(s, quote) ==
    IF s = <<>> THEN <<>> ELSE ReprEscapeChar(Head(s), quote) \o ReprEscape(Tail(s), quote)

HasChar(s, c) == \E i \in 1..Len(s) : s[i] = c

ReprStr(s) ==
    LET quote == IF HasChar(s, "'") /\ ~HasChar(s, "\"") THEN "\"" ELSE "'"
    IN <<quote>> \o ReprEscape(s, quote) \o <<quote>>

\* repr(value)
RECURSIVE PyRepr(_)
RECURSIVE PyReprPairs(_)
RECURSIVE PyReprItems(_)
PyRepr(x) ==
    CASE x.k = "null" -> <<"N", "o", "n", "e">>
      [] x.k = "bool" -> IF x.v THEN <<"T", "r", "u", "e">> ELSE <<"F", "a", "l", "s", "e">>
      [] x.k = "num"  -> IntText(x.v)
      [] x.k = "str"  -> ReprStr(x.v)
      [] x.k = "dict" -> <<"{">> \o PyReprPairs(x.v) \o <<"}">>
      [] x.k = "list" -> <<"[">> \o PyReprItems(x.v) \o <<"]">>

PyReprPairs(pairs) ==
    IF pairs = <<>> THEN <<>>
    ELSE ReprStr(pairs[1][1]) \o <<":", " ">> \o PyRepr(pairs[1][2])
         \o (IF Len(pairs) > 1 THEN <<",", " ">> \o PyReprPairs(Tail(pairs)) ELSE <<>>)

PyReprItems(items) ==
    IF items = <<>> THEN <<>>
    ELSE PyRepr(items[1])
         \o (IF Len(items) > 1 THEN <<",", " ">> \o PyReprItems(Tail(items)) ELSE <<>>)

\* str(value): a str is itself, everything else is its repr
PyStr(x) == IF x.k = "str" THEN x.v ELSE PyRepr(x)


-----------------------------------------------------------------------------
(* ExecutionContext and the Linear Executor's reference resolver.          *)

Raise(e) == [ok |-> FALSE, err |-> e]

Return(x) == [ok |-> TRUE, val |-> x]

\* StepResult (the timestamps and the duration are left out)
StepResult(id, status, output, error) ==
    [step_id |-> id, status |-> status, output |-> output, error |-> error]

NoError == [msg |-> "None"]

\* ExecutionContext.add_step_result: step_results[result.step_id] = result
add_step_result(ctx, result) ==
    [ctx EXCEPT !.step_results = DictSet(@, result.step_id, result)]

\* ExecutionContext.get_step_output
get_step_output(ctx, step_id) ==
    IF ~DictHas(ctx.step_results, step_id)
    THEN Raise([msg |-> "Step not executed yet", step_id |-> step_id])
    ELSE Return(DictGet(ctx.step_results, step_id).output)

T_step == <<"s", "t", "e", "p", "_">>
T_output == <<"o", "u", "t", "p", "u", "t">>
T_variables == <<"v", "a", "r", "i", "a", "b", "l", "e", "s">>
T_open == <<"{", "{">>
T_close == <<"}", "}">>

\* the placeholder text {{step_n.output}}
Placeholder(n) == T_open \o T_step \o IntText(n) \o <<".">> \o T_output \o T_close

\* the loop over parts[1:] of _get_reference_value
RECURSIVE WalkPath(_, _)
WalkPath(value, parts) ==
    IF parts = <<>> THEN Return(value)
    ELSE IF Head(parts) = T_output THEN WalkPath(value, Tail(parts))
    ELSE IF value.k = "dict" THEN WalkPath(DictGet(value.v, Head(parts)), Tail(parts))
    ELSE Raise([msg |-> "Cannot access on non-dict value", part |-> Head(parts)])

\* Executor._get_reference_value
get_reference_value(ref, ctx) ==
    LET parts == Split(ref, ".")
    IN IF StartsWith(parts[1], T_step)
       THEN LET step_id == ParseInt(Replace(parts[1], T_step, <<>>))
            IN IF ~step_id.ok THEN step_id
               ELSE LET value == get_step_output(ctx, step_id.val)
                    IN IF ~value.ok THEN value
                       ELSE WalkPath(value.val, Tail(parts))
       ELSE IF parts[1] = T_variables
       THEN Return(DictGet(ctx.variables, Join(Tail(parts), <<".">>)))
       ELSE Raise([msg |-> "Invalid reference format", ref |-> ref])

\* the end of the run of [^}] characters that starts at i
RECURSIVE RunEnd(_, _)
RunEnd(s, i) == IF i <= Len(s) /\ s[i] # "}" THEN RunEnd(s, i + 1) ELSE i

\* re.findall(r'\{\{([^}]+)\}\}', s): the groups of the non-overlapping
\* matches, scanning from i
RECURSIVE FindAllRefs(_, _)
FindAllRefs(s, i) ==
    IF i + 1 > Len(s) THEN <<>>
    ELSE IF s[i] = "{" /\ s[i + 1] = "{"
    THEN LET j == RunEnd(s, i + 2)
         IN IF j > i + 2 /\ StartsWithAt(s, T_close, j)
            THEN <<SubSeq(s, i + 2, j - 1)>> \o FindAllRefs(s, j + 2)
            ELSE FindAllRefs(s, i + 1)
    ELSE FindAllRefs(s, i + 1)

\* the text a referent is replaced by inside a larger string
RefText(ref_value) ==
    IF ref_value.k \in {"dict", "list"} THEN JsonDumps(ref_value) ELSE PyStr(ref_value)

\* the replacement loop of _resolve_value: result.replace(...) match by match
RECURSIVE ReplaceMatches(_, _, _)
ReplaceMatches(result, matches, ctx) ==
    IF matches = <<>> THEN Return(VStr(result))
    ELSE LET match == Head(matches)
             ref_value == get_reference_value(Strip(match), ctx)
         IN IF ~ref_value.ok THEN ref_value
            ELSE ReplaceMatches(
                     Replace(result, T_open \o match \o T_close, RefText(ref_value.val)),
                     Tail(matches), ctx)

\* _resolve_value with the whole-value shortcut lost: the referent is
\* always turned into text
resolve_value_stringified(value, ctx) ==
    LET matches == FindAllRefs(value, 1)
    IN IF matches = <<>> THEN Return(VStr(value)) ELSE ReplaceMatches(value, matches, ctx)

\* Executor._resolve_value
resolve_value(value, ctx) ==
    LET matches == FindAllRefs(value, 1)
    IN IF matches = <<>> THEN Return(VStr(value))
       ELSE IF Strip(value) = T_open \o matches[1] \o T_close
       THEN get_reference_value(Strip(matches[1]), ctx)
       ELSE ReplaceMatches(value, matches, ctx)

\* the list branch of _resolve_parameters: strings are resolved, other
\* items are kept as they are
RECURSIVE resolve_items(_, _)
resolve_items(items, ctx) ==
    IF items = <<>> THEN Return(<<>>)
    ELSE LET first == IF Head(items).k = "str"
                      THEN resolve_value(Head(items).v, ctx)
                      ELSE Return(Head(items))
         IN IF ~first.ok THEN first
            ELSE LET rest == resolve_items(Tail(items), ctx)
                 IN IF ~rest.ok THEN rest ELSE Return(<<first.val>> \o rest.val)

\* resolved[key] = self._resolve_parameters(value): the resolved mapping as
\* a value, or the error the resolution raised
AsDict(inner) == IF inner.ok THEN Return(VDict(inner.val)) ELSE inner

\* resolved[key] = [...]: the resolved items as a value, or the error
AsList(inner) == IF inner.ok THEN Return(VList(inner.val)) ELSE inner

\* one turn of the loop over parameters.items(): the first error raised
\* ends the resolution, the entry's before the later entries'
ConsPair(key, first, rest) ==
    IF ~first.ok THEN first
    ELSE IF ~rest.ok THEN rest
    ELSE Return(<<(<<key, first.val>>)>> \o rest.val)

\* the branch of _resolve_parameters an entry's value takes
ValueAt(parameters) == Head(parameters)[2]

\* Executor._resolve_parameters on the pairs of a parameter mapping
RECURSIVE resolve_parameters(_, _)
resolve_parameters(parameters, ctx) ==
    IF parameters = <<>> THEN Return(<<>>)
    ELSE ConsPair(Head(parameters)[1],
                  IF ValueAt(parameters).k = "str"
                  THEN resolve_value(ValueAt(parameters).v, ctx)
                  ELSE IF ValueAt(parameters).k = "dict"
                  THEN AsDict(resolve_parameters(ValueAt(parameters).v, ctx))
                  ELSE IF ValueAt(parameters).k = "list"
                  THEN AsList(resolve_items(ValueAt(parameters).v, ctx))
                  ELSE Return(ValueAt(parameters)),
                  resolve_parameters(Tail(parameters), ctx))


-----------------------------------------------------------------------------
(* ToolRegistry and BaseTool.                                              *)

\* a tool: its schema's name and its parameters in declaration order
Tool(name, parameters) == [name |-> name, parameters |-> parameters]

\* ToolParameter (type, description, default and enum are left out)
ToolParameter(name, required) == [name |-> name, required |-> required]

\* a registry in which a name registered again moves to the end
register_atEnd(registry, tool) ==
    SelectSeq(registry, LAMBDA pair : pair[1] # tool.name) \o << <<tool.name, tool>> >>

\* ToolRegistry.register
register(registry, tool) == DictSet(registry, tool.name, tool)

\* ToolRegistry.get_tool
get_tool(registry, name) ==
    IF ~DictHas(registry, name)
    THEN Raise([msg |-> "Tool not found", name |-> name])
    ELSE Return(DictGet(registry, name))

\* ToolRegistry.list_tools
list_tools(registry) == [i \in 1..Len(registry) |-> registry[i][1]]

\* the required parameters of a schema that a call does not give, in
\* declaration order
RECURSIVE MissingRequired(_, _)
MissingRequired(schema, parameters) ==
    IF schema = <<>> THEN <<>>
    ELSE (IF Head(schema).required /\ ~DictHas(parameters, Head(schema).name)
          THEN <<Head(schema).name>> ELSE <<>>)
         \o MissingRequired(Tail(schema), parameters)

\* a validation that also takes a required parameter whose value is null
\* for missing
RECURSIVE MissingOrNull(_, _)
MissingOrNull(schema, parameters) ==
    IF schema = <<>> THEN <<>>
    ELSE (IF /\ Head(schema).required
             /\ \/ ~DictHas(parameters, Head(schema).name)
                \/ DictGet(parameters, Head(schema).name) = VNull
          THEN <<Head(schema).name>> ELSE <<>>)
         \o MissingOrNull(Tail(schema), parameters)

validate_parameters_nonNull(tool, parameters) ==
    LET missing == MissingOrNull(tool.parameters, parameters)
    IN IF missing # <<>>
       THEN Raise([msg |-> "Missing required parameter", param |-> missing[1]])
       ELSE Return(VBool(TRUE))

\* BaseTool.validate_parameters: raises at the first missing one
validate_parameters(tool, parameters) ==
    LET missing == MissingRequired(tool.parameters, parameters)
    IN IF missing # <<>>
       THEN Raise([msg |-> "Missing required parameter", param |-> missing[1]])
       ELSE Return(VBool(TRUE))

\* execute_tool with the validation forgotten
execute_tool_unvalidated(registry, tool_name, parameters, outcome) ==
    LET tool == get_tool(registry, tool_name)
    IN IF ~tool.ok THEN [res |-> tool, invoked |-> FALSE]
       ELSE [res |-> outcome, invoked |-> TRUE]

\* ToolRegistry.execute_tool.  outcome is what the tool's execute does when
\* it is called with these parameters: Return(value) or Raise(error).
\* invoked tells whether execute was called.
execute_tool(registry, tool_name, parameters, outcome) ==
    LET tool == get_tool(registry, tool_name)
    IN IF ~tool.ok THEN [res |-> tool, invoked |-> FALSE]
       ELSE LET valid == validate_parameters(tool.val, parameters)
            IN IF ~valid.ok THEN [res |-> valid, invoked |-> FALSE]
               ELSE [res |-> outcome, invoked |-> TRUE]

\* the spy: one entry per call of execute
LogIfInvoked(log, call, tool_name, parameters, done) ==
    IF done.invoked
    THEN Append(log, [call |-> call, tool |-> tool_name, params |-> parameters])
    ELSE log

-----------------------------------------------------------------------------
(* The Linear Executor.                                                    *)

\* Step (description and expected_output are left out)
Step(step_id, tool, parameters, dependencies) ==
    [step_id |-> step_id, tool |-> tool, parameters |-> parameters,
     dependencies |-> dependencies]

\* _execute_step that marks a step whose parameters do not resolve as
\* skipped
execute_step_skipping(step, ctx, registry, outcome_) ==
    LET resolved_params == resolve_parameters(step.parameters, ctx)
    IN IF ~resolved_params.ok
       THEN [result |-> StepResult(step.step_id, "skipped", VNull, resolved_params.err),
             invoked |-> FALSE, params |-> <<>>]
       ELSE LET done == execute_tool(registry, step.tool, resolved_params.val, outcome_)
            IN [result |-> IF done.res.ok
                           THEN StepResult(step.step_id, "success", done.res.val, NoError)
                           ELSE StepResult(step.step_id, "failed", VNull, done.res.err),
                invoked |-> done.invoked, params |-> resolved_params.val]

\* _execute_step whose except branch drops the exception's message
execute_step_silent(step, ctx, registry, outcome_) ==
    LET resolved_params == resolve_parameters(step.parameters, ctx)
    IN IF ~resolved_params.ok
       THEN [result |-> StepResult(step.step_id, "failed", VNull, NoError),
             invoked |-> FALSE, params |-> <<>>]
       ELSE LET done == execute_tool(registry, step.tool, resolved_params.val, outcome_)
            IN [result |-> IF done.res.ok
                           THEN StepResult(step.step_id, "success", done.res.val, NoError)
                           ELSE StepResult(step.step_id, "failed", VNull, NoError),
                invoked |-> done.invoked, params |-> resolved_params.val]

\* _execute_step resolving against a context without the earlier results
execute_step_fresh(step, ctx, registry, outcome_) ==
    LET resolved_params ==
            resolve_parameters(step.parameters, [ctx EXCEPT !.step_results = <<>>])
    IN IF ~resolved_params.ok
       THEN [result |-> StepResult(step.step_id, "failed", VNull, resolved_params.err),
             invoked |-> FALSE, params |-> <<>>]
       ELSE LET done == execute_tool(registry, step.tool, resolved_params.val, outcome_)
            IN [result |-> IF done.res.ok
                           THEN StepResult(step.step_id, "success", done.res.val, NoError)
                           ELSE StepResult(step.step_id, "failed", VNull, done.res.err),
                invoked |-> done.invoked, params |-> resolved_params.val]

\* Executor._execute_step: the StepResult, and whether and with which
\* parameters the tool's execute was called
execute_step(step, ctx, registry, outcome_) ==
    LET resolved_params == resolve_parameters(step.parameters, ctx)
    IN IF ~resolved_params.ok
       THEN [result |-> StepResult(step.step_id, "failed", VNull, resolved_params.err),
             invoked |-> FALSE, params |-> <<>>]
       ELSE LET done == execute_tool(registry, step.tool, resolved_params.val, outcome_)
            IN [result |-> IF done.res.ok
                           THEN StepResult(step.step_id, "success", done.res.val, NoError)
                           ELSE StepResult(step.step_id, "failed", VNull, done.res.err),
                invoked |-> done.invoked, params |-> resolved_params.val]

\* a resolver that writes the resolved parameters back into the step
plan_after_step_inplace(steps, i, done) ==
    [steps EXCEPT ![i].parameters = IF done.invoked THEN done.params ELSE @]

\* the plan after _execute_step ran its step i: _resolve_parameters fills a
\* mapping of its own (resolved = {}) and only reads step.parameters
plan_after_step(steps, i, done) == steps

\* a loop that goes on after a failed step
StopsRun_never(result) == FALSE

\* execute_plan: if result.status == "failed": return
StopsRun(result) == result.status = "failed"

\* the error of a failed run: f"Step {step.step_id} failed: {error}"
StepFailedError(step, error) ==
    [msg |-> "Step failed", step_id |-> step.step_id, error |-> error]

MaxOf(S) == CHOOSE x \in S : \A y \in S : y <= x

\* _generate_final_output taking the result added last instead of the one
\* with the largest id
generate_final_output_last(ctx) ==
    IF ctx.step_results = <<>> THEN [empty |-> TRUE]
    ELSE [empty |-> FALSE,
          final_output |-> ctx.step_results[Len(ctx.step_results)][2].output,
          steps_executed |-> Len(ctx.step_results)]

\* Executor._generate_final_output (execution_time is left out)
generate_final_output(ctx) ==
    IF ctx.step_results = <<>> THEN [empty |-> TRUE]
    ELSE LET last_step_id ==
                 MaxOf({ctx.step_results[i][1] : i \in 1..Len(ctx.step_results)})
         IN [empty |-> FALSE,
             final_output |-> DictGet(ctx.step_results, last_step_id).output,
             steps_executed |-> Len(ctx.step_results)]

NotReturned == [status |-> "running"]

-----------------------------------------------------------------------------
(* The state-graph variant (LangGraphAgent).                               *)

T_dotOutputClose == <<".">> \o T_output \o T_close

\* the end of the run of digits that starts at i
RECURSIVE DigitsEnd(_, _)
DigitsEnd(s, i) == IF i <= Len(s) /\ IsDigit(s[i]) THEN DigitsEnd(s, i + 1) ELSE i

\* re.findall(r'\{\{step_(\d+)\.output\}\}', s), scanning from i
RECURSIVE FindAllStepRefs(_, _)
FindAllStepRefs(s, i) ==
    IF i > Len(s) THEN <<>>
    ELSE IF StartsWithAt(s, T_open \o T_step, i)
    THEN LET d == i + 7
             j == DigitsEnd(s, d)
         IN IF j > d /\ StartsWithAt(s, T_dotOutputClose, j)
            THEN <<SubSeq(s, d, j - 1)>> \o FindAllStepRefs(s, j + 9)
            ELSE FindAllStepRefs(s, i + 1)
    ELSE FindAllStepRefs(s, i + 1)

\* the first result in the list with this step id, <<>> when there is none
FirstResultOf(step_results, step_id) ==
    LET hits == {i \in 1..Len(step_results) : step_results[i].step_id = step_id}
    IN IF hits = {} THEN <<>>
       ELSE <<step_results[CHOOSE i \in hits : \A j \in hits : i <= j]>>

\* the inner loop: one replace per result that has the step id
RECURSIVE GraphReplaceOne(_, _, _)
GraphReplaceOne(result, step_id, step_results) ==
    IF step_results = <<>> THEN result
    ELSE IF Head(step_results).step_id = step_id
    THEN GraphReplaceOne(
             Replace(result, Placeholder(step_id), PyStr(Head(step_results).output)),
             step_id, Tail(step_results))
    ELSE GraphReplaceOne(result, step_id, Tail(step_results))

RECURSIVE GraphReplaceMatches(_, _, _)
GraphReplaceMatches(result, matches, step_results) ==
    IF matches = <<>> THEN result
    ELSE GraphReplaceMatches(
             GraphReplaceOne(result, DigitsVal(Head(matches), 0), step_results),
             Tail(matches), step_results)

\* resolve_value, the closure of LangGraphAgent._resolve_parameters
graph_resolve_value(value, step_results) ==
    IF value.k # "str" THEN value
    ELSE LET matches == FindAllStepRefs(value.v, 1)
         IN IF matches = <<>> THEN value
            ELSE IF Strip(value.v) = T_open \o T_step \o matches[1] \o T_dotOutputClose
            THEN LET hit == FirstResultOf(step_results, DigitsVal(matches[1], 0))
                 IN IF hit = <<>> THEN VNull ELSE hit[1].output
            ELSE VStr(GraphReplaceMatches(value.v, matches, step_results))

\* LangGraphAgent._resolve_parameters on the pairs of a parameter mapping
RECURSIVE graph_resolve_parameters(_, _)
graph_resolve_parameters(parameters, step_results) ==
    IF parameters = <<>> THEN <<>>
    ELSE LET key == Head(parameters)[1]
             value == Head(parameters)[2]
             first ==
                 IF value.k = "dict"
                 THEN VDict(graph_resolve_parameters(value.v, step_results))
                 ELSE IF value.k = "list"
                 THEN VList([i \in 1..Len(value.v) |->
                                graph_resolve_value(value.v[i], step_results)])
                 ELSE graph_resolve_value(value, step_results)
         IN <<(<<key, first>>)>> \o graph_resolve_parameters(Tail(parameters), step_results)

\* the AgentState run() starts the graph with
InitialAgentState ==
    [has_plan |-> FALSE, steps |-> <<>>, current_step |-> 0, step_results |-> <<>>,
     final_output |-> [status |-> "None"], error |-> NoError, completed |-> FALSE,
     messages |-> <<>>]

\* _plan_node's clean-up of one step's dependencies
NormalizeDeps(deps) == [i \in 1..Len(deps) |-> IF deps[i] >= 0 THEN deps[i] ELSE 0]

\* _plan_node.  planned is Return(steps) when the oracle's answer decoded
\* to a plan and Raise(error) when the call or the decoding raised.
plan_node(state, planned) ==
    IF planned.ok
    THEN [state EXCEPT
            !.has_plan = TRUE,
            !.steps = [i \in 1..Len(planned.val) |->
                          [planned.val[i] EXCEPT !.dependencies = NormalizeDeps(@)]],
            !.messages = Append(@, [msg |-> "Plan created", n |-> Len(planned.val)]),
            !.current_step = 0]
    ELSE [state EXCEPT
            !.error = [msg |-> "Planning failed", error |-> planned.err],
            !.completed = TRUE]

\* _execute_step_node: the new state, and whether and with which parameters
\* the tool's execute was called
execute_step_node(state, registry, outcome_) ==
    IF ~state.has_plan \/ state.current_step >= Len(state.steps)
    THEN [state |-> [state EXCEPT !.completed = TRUE], invoked |-> FALSE, params |-> <<>>]
    ELSE LET step == state.steps[state.current_step + 1]
             resolved_params == graph_resolve_parameters(step.parameters, state.step_results)
             done == execute_tool(registry, step.tool, resolved_params, outcome_)
         IN IF done.res.ok
            THEN [state |-> [state EXCEPT
                     !.step_results =
                         Append(@, StepResult(step.step_id, "success", done.res.val, NoError)),
                     !.current_step = @ + 1,
                     !.messages = Append(@, [msg |-> "Step completed", n |-> step.step_id])],
                  invoked |-> done.invoked, params |-> resolved_params]
            ELSE [state |-> [state EXCEPT
                     !.step_results =
                         Append(@, StepResult(step.step_id, "failed", VNull, done.res.err)),
                     !.error = StepFailedError(step, done.res.err),
                     !.completed = TRUE],
                  invoked |-> done.invoked, params |-> resolved_params]

\* _should_continue
should_continue(state) == IF state.error # NoError THEN "error" ELSE "check"

\* _check_completion_node
check_completion_node(state) ==
    IF ~state.has_plan THEN [state EXCEPT !.completed = TRUE]
    ELSE IF state.current_step >= Len(state.steps) THEN [state EXCEPT !.completed = TRUE]
    ELSE state

\* _check_if_done
check_if_done(state) == IF state.completed THEN "finish" ELSE "continue"

\* _finalize_node (execution_time is left out)
finalize_node(state) ==
    IF state.error # NoError
    THEN [state EXCEPT
            !.final_output = [status |-> "failed", error |-> state.error],
            !.completed = TRUE]
    ELSE IF state.step_results # <<>>
    THEN [state EXCEPT
            !.final_output =
                [status |-> "completed",
                 result |-> state.step_results[Len(state.step_results)].output,
                 steps_executed |-> Len(state.step_results)],
            !.completed = TRUE]
    ELSE [state EXCEPT
            !.final_output = [status |-> "completed", result |-> VNull, steps_executed |-> 0],
            !.completed = TRUE]

\* what run() returns from the final state
graph_run_result(final_state) ==
    [status |-> IF final_state.error = NoError THEN "completed" ELSE "failed",
     result |-> final_state.final_output,
     step_results |-> final_state.step_results,
     error |-> final_state.error]

-----------------------------------------------------------------------------
(* json.loads: the texts Python's decoder accepts and the values it gives. *)
(* A float is kept as the decimal m * 10^e of its literal (binary rounding  *)
(* and overflow are left out); a surrogate pair of \u escapes is kept as    *)
(* its two code units.                                                      *)

VFloat(m, e) == [k |-> "float", m |-> m, e |-> e]

JsonError(why) == Raise([msg |-> "JSONDecodeError", why |-> why])

\* the whitespace json.decoder skips
IsJsonSpace(c) == c \in {" ", "\t", "\n", "\r"}

\* the printable ASCII characters, U+0020 to U+007E
Ascii ==
    <<" ", "!", "\"", "#", "$", "%", "&", "'", "(", ")", "*", "+", ",", "-", ".", "/",
      "0", "1", "2", "3", "4", "5", "6", "7", "8", "9", ":", ";", "<", "=", ">", "?",
      "@", "A", "B", "C", "D", "E", "F", "G", "H", "I", "J", "K", "L", "M", "N", "O",
      "P", "Q", "R", "S", "T", "U", "V", "W", "X", "Y", "Z", "[", "\\", "]", "^", "_",
      "U+0060", "a", "b", "c", "d", "e", "f", "g", "h", "i", "j", "k", "l", "m", "n", "o",
      "p", "q", "r", "s", "t", "u", "v", "w", "x", "y", "z", "{", "|", "}", "~">>

HexVal(c) == (CHOOSE i \in 1..16 : HexDigits[i] = LowerHex(c)) - 1

HexCode(h) == ((HexVal(h[1]) * 16 + HexVal(h[2])) * 16 + HexVal(h[3])) * 16 + HexVal(h[4])

\* chr(int(h, 16)) for the four hex digits of a \u escape
CharOfHex(h) ==
    LET low == [i \in 1..4 |-> LowerHex(h[i])]
    IN IF \E i \in 1..Len(ControlChars) : ControlChars[i].hex = low
       THEN ControlChars[CHOOSE i \in 1..Len(ControlChars) : ControlChars[i].hex = low].c
       ELSE IF HexCode(h) >= 32 /\ HexCode(h) <= 126
       THEN Ascii[HexCode(h) - 31]
       ELSE "U+" \o low[1] \o low[2] \o low[3] \o low[4]

\* json.decoder.BACKSLASH: the single-character escapes
Unescape(c) ==
    CASE c = "\"" -> "\""
      [] c = "\\" -> "\\"
      [] c = "/"  -> "/"
      [] c = "b"  -> "U+0008"
      [] c = "f"  -> "\f"
      [] c = "n"  -> "\n"
      [] c = "r"  -> "\r"
      [] c = "t"  -> "\t"

IsSimpleEscape(c) == c \in {"\"", "\\", "/", "b", "f", "n", "r", "t"}

AllHex(s, i, j) == j <= Len(s) /\ \A k \in i..j : IsHex(s[k])

\* json.decoder.py_scanstring (strict): s[i] is the character after the
\* opening quote; the result is the string and the position after the
\* closing quote
RECURSIVE ScanString(_, _, _)
ScanString(s, i, acc) ==
    IF i > Len(s) THEN JsonError("Unterminated string")
    ELSE IF s[i] = "\"" THEN [ok |-> TRUE, val |-> acc, pos |-> i + 1]
    ELSE IF s[i] = "\\"
    THEN IF i + 1 > Len(s) THEN JsonError("Unterminated string")
         ELSE IF s[i + 1] = "u"
         THEN IF AllHex(s, i + 2, i + 5)
              THEN ScanString(s, i + 6, Append(acc, CharOfHex(SubSeq(s, i + 2, i + 5))))
              ELSE JsonError("Invalid \\uXXXX escape")
         ELSE IF IsSimpleEscape(s[i + 1])
         THEN ScanString(s, i + 2, Append(acc, Unescape(s[i + 1])))
         ELSE JsonError("Invalid \\escape")
    ELSE IF IsControl(s[i]) THEN JsonError("Invalid control character")
    ELSE ScanString(s, i + 1, Append(acc, s[i]))

\* the end of the run of digits that starts at i
RECURSIVE DigitRunEnd(_, _)
DigitRunEnd(s, i) == IF i <= Len(s) /\ IsDigit(s[i]) THEN DigitRunEnd(s, i + 1) ELSE i

IsDigitAt(s, i) == i <= Len(s) /\ IsDigit(s[i])

\* json.scanner.NUMBER_RE, integer part -?(0|[1-9]\d*): the position after
\* it, 0 when there is no match at i
IntEnd(s, i) ==
    LET j == IF s[i] = "-" THEN i + 1 ELSE i
    IN IF ~IsDigitAt(s, j) THEN 0
       ELSE IF s[j] = "0" THEN j + 1
       ELSE DigitRunEnd(s, j)

\* the fraction (\.\d+)? from j
FracEnd(s, j) ==
    IF j <= Len(s) /\ s[j] = "." /\ IsDigitAt(s, j + 1) THEN DigitRunEnd(s, j + 1) ELSE j

ExpDigitsAt(s, j) ==
    IF j + 1 <= Len(s) /\ s[j + 1] \in {"+", "-"} THEN j + 2 ELSE j + 1

\* the exponent ([eE][-+]?\d+)? from j
ExpEnd(s, j) ==
    IF j <= Len(s) /\ s[j] \in {"e", "E"} /\ IsDigitAt(s, ExpDigitsAt(s, j))
    THEN DigitRunEnd(s, ExpDigitsAt(s, j))
    ELSE j

\* m * 10^e without trailing zeros in m
RECURSIVE NormalFloat(_, _)
NormalFloat(m, e) ==
    IF m = 0 THEN VFloat(0, 0)
    ELSE IF m % 10 = 0 THEN NormalFloat(m \div 10, e + 1)
    ELSE VFloat(m, e)

SignedDigits(t) ==
    IF Head(t) = "-" THEN -DigitsVal(Tail(t), 0) ELSE DigitsVal(t, 0)

ExpVal(t) ==
    IF t = <<>> THEN 0
    ELSE IF t[2] = "-" THEN -DigitsVal(SubSeq(t, 3, Len(t)), 0)
    ELSE IF t[2] = "+" THEN DigitsVal(SubSeq(t, 3, Len(t)), 0)
    ELSE DigitsVal(Tail(t), 0)

\* the value of a number literal: int(integer) when it has neither
\* fraction nor exponent, float(...) otherwise
NumberValue(int, frac, exp) ==
    IF frac = <<>> /\ exp = <<>> THEN VNum(SignedDigits(int))
    ELSE NormalFloat(SignedDigits(int \o (IF frac = <<>> THEN <<>> ELSE Tail(frac))),
                     ExpVal(exp) - (IF frac = <<>> THEN 0 ELSE Len(frac) - 1))

NumberAt(s, i) ==
    NumberValue(SubSeq(s, i, IntEnd(s, i) - 1),
                SubSeq(s, IntEnd(s, i), FracEnd(s, IntEnd(s, i)) - 1),
                SubSeq(s, FracEnd(s, IntEnd(s, i)), ExpEnd(s, FracEnd(s, IntEnd(s, i))) - 1))

T_null == <<"n", "u", "l", "l">>
T_true == <<"t", "r", "u", "e">>
T_false == <<"f", "a", "l", "s", "e">>
T_NaN == <<"N", "a", "N">>
T_Infinity == <<"I", "n", "f", "i", "n", "i", "t", "y">>

\* the constants json.scanner accepts besides null, true and false
VNaN == [k |-> "nan"]
VInfinity(sign) == [k |-> "inf", sign |-> sign]

IsPunct(c) == c \in {"{", "}", "[", "]", ":", ","}

ValueToken(v) == [t |-> "value", v |-> v]

\* json.scanner.py_make_scanner, token by token: the punctuation marks and
\* the scalar values of s[i:], or the error of the first character that
\* starts neither
RECURSIVE Lex(_, _, _)
RECURSIVE LexString(_, _, _)
Lex(s, i, toks) ==
    IF i > Len(s) THEN Return(toks)
    ELSE IF IsJsonSpace(s[i]) THEN Lex(s, i + 1, toks)
    ELSE IF IsPunct(s[i]) THEN Lex(s, i + 1, Append(toks, [t |-> s[i]]))
    ELSE IF s[i] = "\"" THEN LexString(s, ScanString(s, i + 1, <<>>), toks)
    ELSE IF StartsWithAt(s, T_null, i) THEN Lex(s, i + 4, Append(toks, ValueToken(VNull)))
    ELSE IF StartsWithAt(s, T_true, i)
    THEN Lex(s, i + 4, Append(toks, ValueToken(VBool(TRUE))))
    ELSE IF StartsWithAt(s, T_false, i)
    THEN Lex(s, i + 5, Append(toks, ValueToken(VBool(FALSE))))
    ELSE IF IntEnd(s, i) > 0
    THEN Lex(s, ExpEnd(s, FracEnd(s, IntEnd(s, i))), Append(toks, ValueToken(NumberAt(s, i))))
    ELSE IF StartsWithAt(s, T_NaN, i) THEN Lex(s, i + 3, Append(toks, ValueToken(VNaN)))
    ELSE IF StartsWithAt(s, T_Infinity, i)
    THEN Lex(s, i + 8, Append(toks, ValueToken(VInfinity(1))))
    ELSE IF StartsWithAt(s, <<"-">> \o T_Infinity, i)
    THEN Lex(s, i + 9, Append(toks, ValueToken(VInfinity(-1))))
    ELSE JsonError("Expecting value")

LexString(s, scanned, toks) ==
    IF ~scanned.ok THEN scanned
    ELSE Lex(s, scanned.pos, Append(toks, ValueToken(VStr(scanned.val))))

\* the containers under construction, innermost last
ListFrame == [k |-> "list", items |-> <<>>, key |-> <<>>]
DictFrame == [k |-> "dict", items |-> <<>>, key |-> <<>>]

Top(stack) == stack[Len(stack)]

Pop(stack) == SubSeq(stack, 1, Len(stack) - 1)

\* the innermost container takes a finished value: a list appends it, a
\* dict stores it under the pending key (a repeated key keeps its place and
\* takes the later value)
Attach(stack, v) ==
    [stack EXCEPT ![Len(stack)] =
        IF @.k = "list" THEN [@ EXCEPT !.items = Append(@, v)]
        ELSE [@ EXCEPT !.items = DictSet(@, Top(stack).key, v)]]

SetKey(stack, key) == [stack EXCEPT ![Len(stack)] = [@ EXCEPT !.key = key]]

Closed(frame) == IF frame.k = "list" THEN VList(frame.items) ELSE VDict(frame.items)

\* JSONObject, JSONArray and the top-level check of JSONDecoder.decode, on
\* the tokens from position j.  expect is what the grammar allows next.
RECURSIVE ParseToks(_, _, _, _, _)
RECURSIVE Completed(_, _, _, _)
ParseToks(toks, j, stack, expect, result) ==
    IF expect = "end"
    THEN IF j > Len(toks) THEN Return(result) ELSE JsonError("Extra data")
    ELSE IF j > Len(toks) THEN JsonError("Expecting value")
    ELSE CASE expect \in {"value", "first_item"} /\ toks[j].t = "value"
                -> Completed(toks, j + 1, stack, toks[j].v)
           [] expect \in {"value", "first_item"} /\ toks[j].t = "{"
                -> ParseToks(toks, j + 1, Append(stack, DictFrame), "first_key", result)
           [] expect \in {"value", "first_item"} /\ toks[j].t = "["
                -> ParseToks(toks, j + 1, Append(stack, ListFrame), "first_item", result)
           [] expect \in {"first_key", "key"} /\ toks[j].t = "value" /\ toks[j].v.k = "str"
                -> ParseToks(toks, j + 1, SetKey(stack, toks[j].v.v), "colon", result)
           [] expect = "colon" /\ toks[j].t = ":"
                -> ParseToks(toks, j + 1, stack, "value", result)
           [] expect = "next" /\ toks[j].t = ","
                -> ParseToks(toks, j + 1, stack,
                             IF Top(stack).k = "dict" THEN "key" ELSE "value", result)
           [] expect \in {"first_item", "next"} /\ toks[j].t = "]" /\ Top(stack).k = "list"
                -> Completed(toks, j + 1, Pop(stack), Closed(Top(stack)))
           [] expect \in {"first_key", "next"} /\ toks[j].t = "}" /\ Top(stack).k = "dict"
                -> Completed(toks, j + 1, Pop(stack), Closed(Top(stack)))
           [] OTHER -> JsonError("Expecting value or delimiter")

Completed(toks, j, stack, v) ==
    IF stack = <<>> THEN ParseToks(toks, j, stack, "end", v)
    ELSE ParseToks(toks, j, Attach(stack, v), "next", v)

ParseLexed(toks) ==
    IF ~toks.ok THEN toks ELSE ParseToks(toks.val, 1, <<>>, "value", VNull)

\* json.loads(s)
JsonLoads(s) == ParseLexed(Lex(s, 1, <<>>))

-----------------------------------------------------------------------------
(* The Structured Decoder: chat_with_json after the oracle has answered.   *)

T_fence == <<"U+0060", "U+0060", "U+0060">>
T_fenceJson == T_fence \o <<"j", "s", "o", "n">>

\* if s.startswith(p): s = s[len(p):]
DropPrefix(s, p) == IF StartsWith(s, p) THEN From(s, Len(p) + 1) ELSE s

\* if s.endswith(p): s = s[:-len(p)]
DropSuffix(s, p) == IF EndsWith(s, p) THEN SubSeq(s, 1, Len(s) - Len(p)) ELSE s

\* strip, the three fence checks, strip
StripFences(response_text) ==
    Strip(DropSuffix(DropPrefix(DropPrefix(Strip(response_text), T_fenceJson), T_fence),
                     T_fence))

\* valid_escapes of fix_json_string
ValidEscapes == {"\"", "\\", "/", "b", "f", "n", "r", "t", "u"}

\* the number of backslashes that end at position j
RECURSIVE BackslashesBefore(_, _)
BackslashesBefore(text, j) ==
    IF j >= 1 /\ text[j] = "\\" THEN 1 + BackslashesBefore(text, j - 1) ELSE 0

\* the quote at i is a string boundary
IsBoundaryQuote(text, i) ==
    /\ text[i] = "\""
    /\ \/ i = 1
       \/ text[i - 1] # "\\"
       \/ (i >= 3 /\ text[i - 2] = "\\" /\ text[i - 1] = "\\")
    /\ BackslashesBefore(text, i - 1) % 2 = 0

\* a character inside a string that is left as it is
FixChar_kept(c) == <<c>>

\* a character inside a string: newline, carriage return and tab become
\* their escapes, any other control character its \u00xx form
FixChar(c) ==
    IF c = "\n" THEN <<"\\", "n">>
    ELSE IF c = "\r" THEN <<"\\", "r">>
    ELSE IF c = "\t" THEN <<"\\", "t">>
    ELSE IF IsControl(c) THEN <<"\\", "u">> \o ControlHex(c)
    ELSE <<c>>

\* a backslash and the character after it, inside a string, with the
\* backslash doubled whatever follows
FixEscape_doubled(text, i) == <<"\\", "\\", text[i + 1]>>

\* a backslash and the character after it, inside a string: a \uXXXX
\* escape and a valid escape pass, any other gets its backslash doubled
FixEscape(text, i) ==
    IF text[i + 1] = "u" /\ AllHex(text, i + 2, i + 5) THEN SubSeq(text, i, i + 5)
    ELSE IF text[i + 1] \in ValidEscapes THEN <<"\\", text[i + 1]>>
    ELSE <<"\\", "\\", text[i + 1]>>

\* how many characters of the text FixEscape consumed
EscapeLen(text, i) ==
    IF text[i + 1] = "u" /\ AllHex(text, i + 2, i + 5) THEN 6 ELSE 2

\* the while loop of fix_json_string
RECURSIVE FixLoop(_, _, _, _)
FixLoop(text, i, in_string, result) ==
    IF i > Len(text) THEN result
    ELSE IF IsBoundaryQuote(text, i)
    THEN FixLoop(text, i + 1, ~in_string, Append(result, "\""))
    ELSE IF in_string /\ text[i] = "\\" /\ i + 1 <= Len(text)
    THEN FixLoop(text, i + EscapeLen(text, i), in_string, result \o FixEscape(text, i))
    ELSE FixLoop(text, i + 1, in_string,
                 result \o (IF in_string THEN FixChar(text[i]) ELSE <<text[i]>>))

\* fix_json_string
fix_json_string(text) == FixLoop(text, 1, FALSE, <<>>)

\* a bracket matching that counts every brace, those inside string
\* literals too
RECURSIVE BraceEnd_plain(_, _, _, _, _)
BraceEnd_plain(text, i, bracket_count, in_string, escape_next) ==
    IF i > Len(text) THEN 0
    ELSE IF text[i] = "{"
    THEN BraceEnd_plain(text, i + 1, bracket_count + 1, in_string, FALSE)
    ELSE IF text[i] = "}"
    THEN IF bracket_count - 1 = 0 THEN i
         ELSE BraceEnd_plain(text, i + 1, bracket_count - 1, in_string, FALSE)
    ELSE BraceEnd_plain(text, i + 1, bracket_count, in_string, FALSE)

\* the bracket matching of the fallback: the position of the brace that
\* brings the count back to zero, 0 when there is none
RECURSIVE BraceEnd(_, _, _, _, _)
BraceEnd(text, i, bracket_count, in_string, escape_next) ==
    IF i > Len(text) THEN 0
    ELSE IF escape_next THEN BraceEnd(text, i + 1, bracket_count, in_string, FALSE)
    ELSE IF text[i] = "\\" THEN BraceEnd(text, i + 1, bracket_count, in_string, TRUE)
    ELSE IF text[i] = "\"" THEN BraceEnd(text, i + 1, bracket_count, ~in_string, FALSE)
    ELSE IF ~in_string /\ text[i] = "{"
    THEN BraceEnd(text, i + 1, bracket_count + 1, in_string, FALSE)
    ELSE IF ~in_string /\ text[i] = "}"
    THEN IF bracket_count - 1 = 0 THEN i
         ELSE BraceEnd(text, i + 1, bracket_count - 1, in_string, FALSE)
    ELSE BraceEnd(text, i + 1, bracket_count, in_string, FALSE)

\* cleaned_text[:500]
Prefix(s, n) == SubSeq(s, 1, IF Len(s) < n THEN Len(s) ELSE n)

\* ValueError(f"Failed to parse JSON response: {e}\nResponse: ...")
FailedToParse(e, cleaned_text) ==
    Raise([msg |-> "Failed to parse JSON response", cause |-> e,
           text |-> Prefix(cleaned_text, 500)])

\* json.loads(cleaned_text[start_idx:end_idx]), or the ValueError of a
\* missing brace
DecodeRegion(cleaned_text, start_idx, end_idx) ==
    IF start_idx = 0 THEN Raise([msg |-> "No JSON object found in response"])
    ELSE IF end_idx = 0 THEN Raise([msg |-> "No complete JSON object found"])
    ELSE JsonLoads(SubSeq(cleaned_text, start_idx, end_idx))

BraceEndFrom(cleaned_text, start_idx) ==
    IF start_idx = 0 THEN 0 ELSE BraceEnd(cleaned_text, start_idx, 0, FALSE, FALSE)

\* except Exception as parse_error: raise ValueError(...)
OrFailedToParse(region, e, cleaned_text) ==
    IF region.ok THEN region ELSE FailedToParse(e, cleaned_text)

\* a decoder without the fallback
FallbackDecode_none(cleaned_text, e) == FailedToParse(e, cleaned_text)

\* the except branch: the first { and its matching } are decoded
FallbackDecode(cleaned_text, e) ==
    OrFailedToParse(
        DecodeRegion(cleaned_text, Find(cleaned_text, <<"{">>, 1),
                     BraceEndFrom(cleaned_text, Find(cleaned_text, <<"{">>, 1))),
        e, cleaned_text)

\* try: return json.loads(cleaned_text) except json.JSONDecodeError
DecodeCleaned(cleaned_text, direct) ==
    IF direct.ok THEN direct ELSE FallbackDecode(cleaned_text, direct.err)

DecodeText(cleaned_text) == DecodeCleaned(cleaned_text, JsonLoads(cleaned_text))

\* chat_with_json.  response is what self.chat did: Return(text), or
\* Raise(error), which chat_with_json lets through.
chat_with_json(response) ==
    IF ~response.ok THEN response
    ELSE DecodeText(fix_json_string(StripFences(response.val)))

-----------------------------------------------------------------------------
(* The ReAct Agent: _parse_llm_output and the loop of run.                  *)

Uppers ==
    <<"A", "B", "C", "D", "E", "F", "G", "H", "I", "J", "K", "L", "M",
      "N", "O", "P", "Q", "R", "S", "T", "U", "V", "W", "X", "Y", "Z">>

Lowers ==
    <<"a", "b", "c", "d", "e", "f", "g", "h", "i", "j", "k", "l", "m",
      "n", "o", "p", "q", "r", "s", "t", "u", "v", "w", "x", "y", "z">>

IsUpper(c) == \E i \in 1..26 : Uppers[i] = c

LowerChar(c) ==
    IF IsUpper(c) THEN Lowers[CHOOSE i \in 1..26 : Uppers[i] = c] ELSE c

\* the text as re.IGNORECASE compares it (ASCII letters)
Lower(s) == [i \in 1..Len(s) |-> LowerChar(s[i])]

\* the regex class \w (ASCII letters, digits and the underscore)
IsWordChar(c) ==
    IsDigit(c) \/ c = "_" \/ \E i \in 1..26 : Uppers[i] = c \/ Lowers[i] = c

\* \s* from i: the first index >= i that holds no whitespace
RECURSIVE SkipSpace(_, _)
SkipSpace(s, i) ==
    IF i <= Len(s) /\ IsSpace(s[i]) THEN SkipSpace(s, i + 1) ELSE i

\* \w+ from i: the index after the run of word characters
RECURSIVE WordEnd(_, _)
WordEnd(s, i) ==
    IF i <= Len(s) /\ IsWordChar(s[i]) THEN WordEnd(s, i + 1) ELSE i

T_thoughtMark == <<"t", "h", "o", "u", "g", "h", "t", ":">>
T_finalWord == <<"f", "i", "n", "a", "l", " ", "a", "n", "s", "w", "e", "r">>
T_finalMark == T_finalWord \o <<":">>
T_actionWord == <<"a", "c", "t", "i", "o", "n">>
T_actionMark == T_actionWord \o <<":">>
T_inputWord == T_actionWord \o <<" ", "i", "n", "p", "u", "t">>
T_inputMark == T_inputWord \o <<":">>

\* the lookahead (?=\n(?:Action|Final Answer)|\Z) at index e
ThoughtStops(output, low, e) ==
    \/ e > Len(output)
    \/ /\ output[e] = "\n"
       /\ \/ StartsWithAt(low, T_actionWord, e + 1)
          \/ StartsWithAt(low, T_finalWord, e + 1)

\* (.+?) of the Thought pattern: one character at least, then as few as
\* the lookahead allows
RECURSIVE ThoughtEnd(_, _, _)
ThoughtEnd(output, low, e) ==
    IF ThoughtStops(output, low, e) THEN e ELSE ThoughtEnd(output, low, e + 1)

\* where the group of a pattern "marker:\s*(.+?)" starts: after the
\* whitespace, or on the last character when whitespace is all there is
GroupStart(output, q) ==
    IF SkipSpace(output, q) > Len(output) THEN Len(output)
    ELSE SkipSpace(output, q)

ThoughtGroup(output, low, g) ==
    SubSeq(output, g, ThoughtEnd(output, low, g + 1) - 1)

ThoughtAt(output, low, p) ==
    IF p = 0 \/ p + Len(T_thoughtMark) > Len(output) THEN <<>>
    ELSE Strip(ThoughtGroup(output, low,
                            GroupStart(output, p + Len(T_thoughtMark))))

\* re.search(r'Thought:\s*(.+?)(?=\n(?:Action|Final Answer)|\Z)', ...)
ParseThought(output, low) == ThoughtAt(output, low, Find(low, T_thoughtMark, 1))

FinalAt(output, p) ==
    IF p = 0 \/ p + Len(T_finalMark) > Len(output) THEN VNull
    ELSE VStr(Strip(From(output, p + Len(T_finalMark))))

\* re.search(r'Final Answer:\s*(.+?)$', ...): the marker needs one
\* character at least after it; the group runs to the end of the text
ParseFinal(output, low) == FinalAt(output, Find(low, T_finalMark, 1))

WordStart(output, p) == SkipSpace(output, p + Len(T_actionMark))

HasWordAt(output, w) == w <= Len(output) /\ IsWordChar(output[w])

\* re.search(r'Action:\s*(\w+)', ...): the leftmost marker that a word
\* follows
RECURSIVE ActionFrom(_, _, _)
ActionFrom(output, low, p) ==
    IF p = 0 THEN VNull
    ELSE IF HasWordAt(output, WordStart(output, p))
    THEN VStr(SubSeq(output, WordStart(output, p),
                     WordEnd(output, WordStart(output, p)) - 1))
    ELSE ActionFrom(output, low, Find(low, T_actionMark, p + 1))

ParseAction(output, low) == ActionFrom(output, low, Find(low, T_actionMark, 1))

BraceStart(output, p) == SkipSpace(output, p + Len(T_inputMark))

\* (\{.+?\}) at w: an opening brace, one character at least, and the
\* first closing brace after it
HasRegionAt(output, w) ==
    /\ w <= Len(output)
    /\ output[w] = "{"
    /\ Find(output, <<"}">>, w + 2) > 0

\* re.search(r'Action Input:\s*(\{.+?\})', ...)
RECURSIVE InputFrom(_, _, _)
InputFrom(output, low, p) ==
    IF p = 0 THEN [matched |-> FALSE]
    ELSE IF HasRegionAt(output, BraceStart(output, p))
    THEN [matched |-> TRUE,
          text |-> SubSeq(output, BraceStart(output, p),
                          Find(output, <<"}">>, BraceStart(output, p) + 2))]
    ELSE InputFrom(output, low, Find(low, T_inputMark, p + 1))

\* the brace count of the fallback: every brace counts, in a string or
\* not; 0 when the count never returns to zero
RECURSIVE PlainBraceEnd(_, _, _)
PlainBraceEnd(output, i, brace_count) ==
    IF i > Len(output) THEN 0
    ELSE IF output[i] = "{" THEN PlainBraceEnd(output, i + 1, brace_count + 1)
    ELSE IF output[i] = "}"
    THEN IF brace_count = 1 THEN i
         ELSE PlainBraceEnd(output, i + 1, brace_count - 1)
    ELSE PlainBraceEnd(output, i + 1, brace_count)

\* output[json_start:json_end], empty when no balanced region was found
LooseRegion(output, json_start, end) ==
    IF json_start = 0 \/ end = 0 THEN <<>> ELSE SubSeq(output, json_start, end)

LooseFrom(output, json_start) ==
    JsonLoads(LooseRegion(output, json_start,
                          IF json_start = 0 THEN 0
                          ELSE PlainBraceEnd(output, json_start, 0)))

\* the bare except: action_input stays the empty dict
OrEmptyInput(loaded) == IF loaded.ok THEN loaded.val ELSE VDict(<<>>)

\* the second attempt: from the first brace after "action input"
LooseInput(output, low) ==
    OrEmptyInput(LooseFrom(output,
                           Find(output, <<"{">>, Find(low, T_inputWord, 1))))

InputOf(output, low, loaded) ==
    IF loaded.ok THEN loaded.val ELSE LooseInput(output, low)

InputMatched(output, low, m) ==
    IF ~m.matched THEN VDict(<<>>)
    ELSE InputOf(output, low, JsonLoads(m.text))

ParseInput(output, low) ==
    InputMatched(output, low, InputFrom(output, low, Find(low, T_inputMark, 1)))

ParsedWith(output, low, final) ==
    IF final # VNull
    THEN [thought |-> ParseThought(output, low), action |-> VNull,
          action_input |-> VDict(<<>>), final_answer |-> final]
    ELSE [thought |-> ParseThought(output, low),
          action |-> ParseAction(output, low),
          action_input |-> ParseInput(output, low),
          final_answer |-> VNull]

\* ReActAgent._parse_llm_output
parse_llm_output(output) ==
    ParsedWith(output, Lower(output), ParseFinal(output, Lower(output)))

\* bool(x) of an Optional[str]
Truthy(x) == x # VNull /\ x.v # <<>>

\* json.dumps(x, ensure_ascii=False, indent=2)
Indent(level) == [i \in 1..(2 * level) |-> " "]

RECURSIVE JsonDumpsIndent(_, _)
RECURSIVE IndentPairs(_, _)
RECURSIVE IndentItems(_, _)
JsonDumpsIndent(x, level) ==
    IF x.k = "dict"
    THEN IF x.v = <<>> THEN <<"{", "}">>
         ELSE <<"{", "\n">> \o IndentPairs(x.v, level + 1)
              \o <<"\n">> \o Indent(level) \o <<"}">>
    ELSE IF x.k = "list"
    THEN IF x.v = <<>> THEN <<"[", "]">>
         ELSE <<"[", "\n">> \o IndentItems(x.v, level + 1)
              \o <<"\n">> \o Indent(level) \o <<"]">>
    ELSE JsonDumps(x)

IndentPairs(pairs, level) ==
    Indent(level) \o JsonStringText(Head(pairs)[1]) \o <<":", " ">>
    \o JsonDumpsIndent(Head(pairs)[2], level)
    \o (IF Len(pairs) = 1 THEN <<>>
        ELSE <<",", "\n">> \o IndentPairs(Tail(pairs), level))

IndentItems(items, level) ==
    Indent(level) \o JsonDumpsIndent(Head(items), level)
    \o (IF Len(items) = 1 THEN <<>>
        ELSE <<",", "\n">> \o IndentItems(Tail(items), level))

\* the keys of a schema as the oracle is shown it
K_name == <<"n", "a", "m", "e">>
K_parameters == <<"p", "a", "r", "a", "m", "e", "t", "e", "r", "s">>
K_description == <<"d", "e", "s", "c", "r", "i", "p", "t", "i", "o", "n">>
K_string == <<"s", "t", "r", "i", "n", "g">>
K_type == <<"t", "y", "p", "e">>
K_object == <<"o", "b", "j", "e", "c", "t">>
K_properties == <<"p", "r", "o", "p", "e", "r", "t", "i", "e", "s">>
K_required == <<"r", "e", "q", "u", "i", "r", "e", "d">>

\* "properties": one entry per parameter, in declaration order.  The tools
\* of the model have parameters of type string, empty descriptions and no
\* enum.
PropertiesOf(parameters) ==
    [i \in 1..Len(parameters) |->
        <<parameters[i].name,
          VDict(<< <<K_type, VStr(K_string)>>, <<K_description, VStr(<<>>)>> >>)>>]

\* "required": the names of the required parameters, in declaration order
RECURSIVE RequiredOf(_)
RequiredOf(parameters) ==
    IF parameters = <<>> THEN <<>>
    ELSE (IF Head(parameters).required THEN <<VStr(Head(parameters).name)>> ELSE <<>>)
         \o RequiredOf(Tail(parameters))

\* ToolSchema.to_llm_schema
to_llm_schema(tool) ==
    VDict(<< <<K_name, VStr(tool.name)>>,
             <<K_description, VStr(<<>>)>>,
             <<K_parameters,
               VDict(<< <<K_type, VStr(K_object)>>,
                        <<K_properties, VDict(PropertiesOf(tool.parameters))>>,
                        <<K_required, VList(RequiredOf(tool.parameters))>> >>)>> >>)

\* ToolRegistry.get_all_schemas_for_llm: the schemas of _tools.values()
get_all_schemas_for_llm(registry) ==
    JsonDumpsIndent(VList([i \in 1..Len(registry) |-> to_llm_schema(registry[i][2])]), 0)

\* the longest observation kept whole
ObsLimit == 3000

\* "\n... (结果已截断)"
T_truncated ==
    <<"\n", ".", ".", ".", " ", "(", "U+7ed3", "U+679c", "U+5df2", "U+622a",
      "U+65ad", ")">>

\* a cut that also takes a text of exactly the limit
Truncate_inclusive(obs_str) ==
    IF Len(obs_str) >= ObsLimit
    THEN SubSeq(obs_str, 1, ObsLimit) \o T_truncated
    ELSE obs_str

Truncate(obs_str) ==
    IF Len(obs_str) > ObsLimit
    THEN SubSeq(obs_str, 1, ObsLimit) \o T_truncated
    ELSE obs_str

\* what run makes of a tool's return value
FormatObservation(observation) ==
    Truncate(IF observation.k = "dict" THEN JsonDumpsIndent(observation, 0)
             ELSE PyStr(observation))

ReActStep(step_num, thought, action, action_input, observation, error) ==
    [step_num |-> step_num, thought |-> thought, action |-> action,
     action_input |-> action_input, observation |-> observation,
     error |-> error]

\* _build_initial_messages (the task's text is left out)
InitialMessages == << [role |-> "user", content |-> [kind |-> "task"]] >>

\* the local variables of run and the ReActResult it builds
NewRun(max_iterations) ==
    [max_iterations |-> max_iterations, iteration |-> 0,
     messages |-> InitialMessages, status |-> "running",
     final_answer |-> VNull, steps |-> <<>>, total_iterations |-> 0,
     error |-> NoError, returned |-> FALSE]

\* the loop's condition with the budget counted one too many
LoopGoesOn_inclusive(iteration, max_iterations) == iteration <= max_iterations

\* while iteration < self.max_iterations
LoopGoesOn(iteration, max_iterations) == iteration < max_iterations

\* an oracle failure taken for a turn without action
OracleRaised_goesOn(r, e) ==
    [r EXCEPT !.iteration = @ + 1,
              !.steps = Append(@, ReActStep(r.iteration + 1, <<>>, VNull,
                                            VNull, VNull, e))]

\* an outer except that does not keep the exception's message
OracleRaised_noError(r, e) ==
    [r EXCEPT !.iteration = @ + 1,
              !.steps = Append(@, ReActStep(r.iteration + 1, <<>>, VNull,
                                            VNull, VNull, e)),
              !.status = "failed",
              !.returned = TRUE]

\* the outer except: the oracle call (or anything else in the turn) raised
OracleRaised(r, e) ==
    [r EXCEPT !.iteration = @ + 1,
              !.steps = Append(@, ReActStep(r.iteration + 1, <<>>, VNull,
                                            VNull, VNull, e)),
              !.status = "failed",
              !.error = e,
              !.returned = TRUE]

\* a non-empty final answer: the run returns completed
FinalAnswered(r, parsed) ==
    [r EXCEPT !.iteration = @ + 1,
              !.steps = Append(@, ReActStep(r.iteration + 1, parsed.thought,
                                 VNull, VNull,
                                 [kind |-> "completed",
                                  final_answer |-> parsed.final_answer.v],
                                 NoError)),
              !.final_answer = parsed.final_answer,
              !.status = "completed",
              !.total_iterations = r.iteration + 1,
              !.returned = TRUE]

\* a turn without action that leaves the transcript as it was
NoAction_silent(r, llm_response) == [r EXCEPT !.iteration = @ + 1]

\* a turn without action that is not counted
NoAction_free(r, llm_response) ==
    [r EXCEPT !.messages = @ \o <<[role |-> "assistant", content |-> llm_response],
                                  [role |-> "user",
                                   content |-> [kind |-> "format reminder"]]>>]

\* no action: the response and a reminder of the format go to the
\* transcript, and the loop continues without a step record
NoAction(r, llm_response) ==
    [r EXCEPT !.iteration = @ + 1,
              !.messages = @ \o <<[role |-> "assistant", content |-> llm_response],
                                  [role |-> "user",
                                   content |-> [kind |-> "format reminder"]]>>]

\* step.observation and step.error after the inner try
ObservationOf(res) ==
    IF res.ok THEN FormatObservation(res.val)
    ELSE [kind |-> "tool failed", error |-> res.err]

ErrorOf(res) == IF res.ok THEN NoError ELSE res.err

\* an action whose tool failure ends the run as an oracle failure does
ToolDone_fatal(r, llm_response, parsed, done) ==
    IF ~done.res.ok THEN OracleRaised(r, done.res.err)
    ELSE [r EXCEPT !.iteration = @ + 1,
                   !.steps = Append(@, ReActStep(r.iteration + 1, parsed.thought,
                                      parsed.action, parsed.action_input,
                                      ObservationOf(done.res), ErrorOf(done.res))),
                   !.messages = @ \o <<[role |-> "assistant", content |-> llm_response],
                                       [role |-> "user",
                                        content |-> [kind |-> "observation",
                                                     observation |-> ObservationOf(done.res)]]>>]

\* an action: the tool call, the step record and the two new messages
ToolDone(r, llm_response, parsed, done) ==
    [r EXCEPT !.iteration = @ + 1,
              !.steps = Append(@, ReActStep(r.iteration + 1, parsed.thought,
                                 parsed.action, parsed.action_input,
                                 ObservationOf(done.res), ErrorOf(done.res))),
              !.messages = @ \o <<[role |-> "assistant", content |-> llm_response],
                                  [role |-> "user",
                                   content |-> [kind |-> "observation",
                                                observation |-> ObservationOf(done.res)]]>>]

\* whether the turn reaches ToolRegistry.execute_tool
CallsTool(parsed) == ~Truthy(parsed.final_answer) /\ parsed.action # VNull

AfterParse(r, llm_response, parsed, registry, outcome) ==
    IF Truthy(parsed.final_answer) THEN FinalAnswered(r, parsed)
    ELSE IF parsed.action = VNull THEN NoAction(r, llm_response)
    ELSE ToolDone(r, llm_response, parsed,
                  execute_tool(registry, parsed.action.v,
                               parsed.action_input.v, outcome))

\* one turn of the loop of run: chat is what self.llm.chat returned or
\* raised, parsed what _parse_llm_output makes of the text it returned,
\* outcome what the tool's execute does if it is called
react_iteration(r, chat, parsed, registry, outcome) ==
    IF ~chat.ok THEN OracleRaised(r, chat.err)
    ELSE AfterParse(r, chat.val, parsed, registry, outcome)

ToolLog(log, call, parsed, registry, outcome) ==
    IF ~CallsTool(parsed) THEN log
    ELSE LogIfInvoked(log, call, parsed.action.v, parsed.action_input.v,
                      execute_tool(registry, parsed.action.v,
                                   parsed.action_input.v, outcome))

\* the spy's log after the turn
react_log(log, call, chat, parsed, registry, outcome) ==
    IF ~chat.ok THEN log ELSE ToolLog(log, call, parsed, registry, outcome)

\* the statements after the loop with the status left as it was
Exhausted_running(r) ==
    [r EXCEPT !.total_iterations = r.iteration,
              !.error = [msg |-> "max iterations reached",
                         max_iterations |-> r.max_iterations],
              !.returned = TRUE]

\* the statements after the loop
Exhausted(r) ==
    [r EXCEPT !.status = "max_iterations",
              !.total_iterations = r.iteration,
              !.error = [msg |-> "max iterations reached",
                         max_iterations |-> r.max_iterations],
              !.returned = TRUE]


-----------------------------------------------------------------------------
(* Bounds and input alphabets.                                             *)

\* pieces per parameter string
MaxPieces == 3

\* what a tool may have returned as a step's output
OutputValues ==
    { VNull, VBool(TRUE), VNum(7), VStr(<<"a", "b">>),
      VStr(Placeholder(2)),
      VDict(<< <<(<<"k">>), VStr(<<"v">>)>> >>),
      VList(<< VNum(1), VStr(<<"x">>) >>) }

\* the pieces parameter strings are put together from
ValuePieces ==
    { Placeholder(1), Placeholder(2), Placeholder(3),
      T_open \o <<" ">> \o T_step \o <<"1", ".">> \o T_output \o <<" ">> \o T_close,
      T_open \o T_step \o <<"1", ".">> \o T_output \o <<".", "k">> \o T_close,
      T_open \o T_variables \o <<".", "n">> \o T_close,
      <<" ">>, <<"a">> }

PieceSeqs(n) == UNION {[1..m -> ValuePieces] : m \in 0..n}

ValueStrings == {Concat(ps) : ps \in PieceSeqs(MaxPieces)}

\* contexts in which step 1 has a result, step 2 may have one, step 3 has none
ResolverContexts ==
    { [step_results |-> << <<1, StepResult(1, "success", o1, NoError)>> >> \o second,
       variables |-> << <<(<<"n">>), VStr(<<"N">>)>> >>] :
        o1 \in OutputValues,
        second \in { <<>>,
                     << <<2, StepResult(2, "success", VStr(<<"X">>), NoError)>> >>,
                     << <<2, StepResult(2, "success", VNum(7), NoError)>> >> } }

-----------------------------------------------------------------------------
(* SpecResolve: _resolve_value applied to one parameter string.            *)

NotResolved == Raise([msg |-> "not called"])

NoCall == [name |-> <<>>, params |-> <<>>, res |-> Raise([msg |-> "not called"])]

\* the parts of the state a specification does not use stay as constructed
ParamsIdle == rsParams = <<>> /\ rsResolved = NotResolved

ResolverIdle == rsValue = <<>> /\ rsOut = NotResolved /\ ParamsIdle

ContextIdle == context = [step_results |-> <<>>, variables |-> <<>>]

RegistryIdle == tools = <<>> /\ execLog = <<>> /\ registered = <<>>

CallsIdle == callCount = 0 /\ lastCall = NoCall

ExecIdle ==
    /\ mode = "none"
    /\ plan = <<>>
    /\ idx = 0
    /\ produced = <<>>
    /\ gstate = InitialAgentState
    /\ returned = NotReturned

NotDecoded == [status |-> "pending"]

NotMade == [val |-> VNull]

DecodeIdle == made = NotMade /\ chatOut = Return(<<>>) /\ decoded = NotDecoded

NotRun == [status |-> "not started"]

ReactIdle == react = NotRun /\ asked = <<>>

PairIdle == runs = <<>>

InitResolve ==
    /\ pc = "resolve"
    /\ rsValue \in ValueStrings
    /\ context \in ResolverContexts
    /\ rsOut = NotResolved
    /\ ParamsIdle
    /\ RegistryIdle
    /\ CallsIdle
    /\ ExecIdle
    /\ DecodeIdle
    /\ ReactIdle
    /\ PairIdle

Resolve ==
    /\ pc = "resolve"
    /\ rsOut' = resolve_value(rsValue, context)
    /\ pc' = "resolved"
    /\ UNCHANGED <<runs, rsValue, rsParams, rsResolved, context, registryVars, callVars,
                   execVars, decodeVars, reactVars>>

NextResolve == Resolve

SpecResolve == InitResolve /\ [][NextResolve]_vars


-----------------------------------------------------------------------------
(* SpecRegistry: register and execute_tool calls on the registry.          *)

\* execute_tool calls per run
MaxCalls == 2

\* register calls per run
MaxRegistered == 4

N_fetch == <<"f", "e", "t", "c", "h">>
N_calc == <<"c", "a", "l", "c">>
N_ghost == <<"g", "h", "o", "s", "t">>
P_x == <<"x">>
P_y == <<"y">>
P_z == <<"z">>

\* the tools a process may register: two under the name fetch
ToolPool ==
    { Tool(N_fetch, <<ToolParameter(P_x, TRUE), ToolParameter(P_y, TRUE),
                      ToolParameter(P_z, FALSE)>>),
      Tool(N_fetch, <<ToolParameter(P_y, TRUE)>>),
      Tool(N_calc, <<>>) }

ToolNames == {N_fetch, N_calc, N_ghost}

\* parameter mappings handed to execute_tool
CallParameters ==
    { <<>>,
      << <<P_x, VNum(1)>> >>,
      << <<P_y, VNull>> >>,
      << <<P_x, VNum(1)>>, <<P_y, VStr(<<"v">>)>> >>,
      << <<P_z, VNum(1)>> >> }

\* what a tool's execute may do
ToolOutcomes ==
    { Return(VStr(<<"o", "k">>)), Return(VDict(<< <<(<<"k">>), VNum(1)>> >>)),
      Raise([msg |-> "tool failure"]) }

InitRegistry ==
    /\ pc = "idle"
    /\ RegistryIdle
    /\ CallsIdle
    /\ ResolverIdle
    /\ ContextIdle
    /\ ExecIdle
    /\ DecodeIdle
    /\ ReactIdle
    /\ PairIdle

Register ==
    /\ pc = "idle"
    /\ Len(registered) < MaxRegistered
    /\ \E tool \in ToolPool :
          /\ tools' = register(tools, tool)
          /\ registered' = Append(registered, tool)
    /\ UNCHANGED <<runs, pc, execLog, callVars, context, resolverVars, execVars, decodeVars, reactVars>>

ExecuteTool ==
    /\ pc = "idle"
    /\ callCount < MaxCalls
    /\ \E name \in ToolNames, parameters \in CallParameters, outcome \in ToolOutcomes :
          LET done == execute_tool(tools, name, parameters, outcome)
          IN /\ lastCall' = [name |-> name, params |-> parameters, res |-> done.res]
             /\ execLog' = LogIfInvoked(execLog, callCount + 1, name, parameters, done)
    /\ callCount' = callCount + 1
    /\ pc' = "called"
    /\ UNCHANGED <<runs, tools, registered, context, resolverVars, execVars, decodeVars, reactVars>>

\* the caller takes the result; the registry is free again
TakeResult ==
    /\ pc = "called"
    /\ pc' = "idle"
    /\ UNCHANGED <<runs, registryVars, callVars, context, resolverVars, execVars, decodeVars, reactVars>>

NextRegistry == Register \/ ExecuteTool \/ TakeResult

SpecRegistry == InitRegistry /\ [][NextRegistry]_vars

\* SpecRegistration: the register calls alone
NextRegistration == Register

SpecRegistration == InitRegistry /\ [][NextRegistration]_vars

-----------------------------------------------------------------------------
(* SpecExec: one run of a plan, by execute_plan or by the state graph.     *)

\* steps per plan
MaxSteps == 3

P_lit == <<"l", "i", "t">>

FetchTool == Tool(N_fetch, <<ToolParameter(P_x, TRUE)>>)

\* the registry the runs use: registration is over before a run starts
ExecTools == register(<<>>, FetchTool)

\* the steps plans are made of: ids may repeat and need not grow
StepPool ==
    { Step(1, N_fetch, << <<P_x, VStr(P_lit)>> >>, <<>>),
      Step(2, N_fetch, << <<P_x, VStr(Placeholder(1))>> >>, <<1>>),
      Step(3, N_fetch, << <<P_x, VStr(<<"a">> \o Placeholder(2))>> >>, <<2>>),
      Step(2, N_ghost, << <<P_x, VStr(P_lit)>> >>, <<>>),
      Step(1, N_fetch, <<>>, <<>>),
      Step(3, N_fetch, << <<P_x, VStr(Placeholder(3))>> >>, <<3>>),
      Step(3, N_fetch, << <<P_x, VStr(P_lit)>> >>, <<1>>),
      Step(2, N_fetch, << <<P_x, VStr(T_open \o P_lit \o T_close)>> >>, <<>>),
      Step(2, N_fetch,
           << <<P_x, VDict(<< <<P_y, VList(<<VStr(Placeholder(1))>>)>> >>)>> >>, <<1>>) }

Plans == UNION {[1..n -> StepPool] : n \in 0..MaxSteps}

\* what fetch's execute may do
ExecOutcomes ==
    { Return(VStr(<<"o", "k">>)), Return(VDict(<< <<(<<"k">>), VNum(1)>> >>)),
      Raise([msg |-> "tool failure"]) }

InitExec ==
    /\ mode \in {"linear", "graph"}
    /\ plan \in Plans
    /\ pc = IF mode = "linear" THEN "running" ELSE "plan"
    /\ tools = ExecTools
    /\ registered = <<FetchTool>>
    /\ execLog = <<>>
    /\ context = [step_results |-> <<>>, variables |-> <<>>]
    /\ idx = 1
    /\ produced = <<>>
    /\ gstate = InitialAgentState
    /\ returned = NotReturned
    /\ ResolverIdle
    /\ CallsIdle
    /\ DecodeIdle
    /\ ReactIdle
    /\ PairIdle

\* the body of the loop of execute_plan once _execute_step has returned:
\* add_step_result, then the return on a failed step
RecordStep(step, done) ==
    /\ execLog' = LogIfInvoked(execLog, idx, step.tool, done.params, done)
    /\ context' = add_step_result(context, done.result)
    /\ produced' = Append(produced, done.result)
    /\ plan' = plan_after_step(plan, idx, done)
    /\ IF StopsRun(done.result)
       THEN /\ returned' = [status |-> "failed",
                            error |-> StepFailedError(step, done.result.error)]
            /\ pc' = "done"
            /\ idx' = idx
       ELSE /\ returned' = returned
            /\ pc' = pc
            /\ idx' = idx + 1

\* one turn of execute_plan's loop: _execute_step, add_step_result, and the
\* return when the step failed
ExecuteStep ==
    /\ mode = "linear"
    /\ pc = "running"
    /\ idx <= Len(plan)
    /\ \E outcome_ \in ExecOutcomes :
          RecordStep(plan[idx], execute_step(plan[idx], context, tools, outcome_))
    /\ UNCHANGED <<runs, mode, gstate, tools, registered, resolverVars, callVars,
                   decodeVars, reactVars>>

\* the loop is over: _generate_final_output and the completed result
Finish ==
    /\ mode = "linear"
    /\ pc = "running"
    /\ idx > Len(plan)
    /\ returned' = [status |-> "completed", result |-> generate_final_output(context)]
    /\ pc' = "done"
    /\ UNCHANGED <<runs, mode, plan, idx, produced, gstate, context, registryVars,
                   resolverVars, callVars, decodeVars, reactVars>>

\* node plan, then the edge to execute_step
PlanNode ==
    /\ mode = "graph"
    /\ pc = "plan"
    /\ \E planned \in {Return(plan), Raise([msg |-> "oracle failure"])} :
          gstate' = plan_node(gstate, planned)
    /\ pc' = "execute_step"
    /\ UNCHANGED <<runs, mode, plan, idx, produced, returned, context, registryVars,
                   resolverVars, callVars, decodeVars, reactVars>>

\* node execute_step, then the conditional edge _should_continue
ExecuteStepNode ==
    /\ mode = "graph"
    /\ pc = "execute_step"
    /\ \E outcome_ \in ExecOutcomes :
          LET done == execute_step_node(gstate, tools, outcome_)
              tool == IF gstate.has_plan /\ gstate.current_step < Len(gstate.steps)
                      THEN gstate.steps[gstate.current_step + 1].tool ELSE <<>>
          IN /\ gstate' = done.state
             /\ execLog' = LogIfInvoked(execLog, gstate.current_step + 1, tool,
                                        done.params, done)
             /\ pc' = IF should_continue(done.state) = "error"
                      THEN "finalize" ELSE "check_completion"
    /\ UNCHANGED <<runs, mode, plan, idx, produced, returned, context, tools, registered,
                   resolverVars, callVars, decodeVars, reactVars>>

\* node check_completion, then the conditional edge _check_if_done
CheckCompletionNode ==
    /\ mode = "graph"
    /\ pc = "check_completion"
    /\ gstate' = check_completion_node(gstate)
    /\ pc' = IF check_if_done(gstate') = "finish" THEN "finalize" ELSE "execute_step"
    /\ UNCHANGED <<runs, mode, plan, idx, produced, returned, context, registryVars,
                   resolverVars, callVars, decodeVars, reactVars>>

\* node finalize, the edge to END, and run()'s return
FinalizeNode ==
    /\ mode = "graph"
    /\ pc = "finalize"
    /\ gstate' = finalize_node(gstate)
    /\ returned' = graph_run_result(gstate')
    /\ pc' = "done"
    /\ UNCHANGED <<runs, mode, plan, idx, produced, context, registryVars,
                   resolverVars, callVars, decodeVars, reactVars>>

NextExec ==
    \/ ExecuteStep
    \/ Finish
    \/ PlanNode
    \/ ExecuteStepNode
    \/ CheckCompletionNode
    \/ FinalizeNode

SpecExec == InitExec /\ [][NextExec]_vars

-----------------------------------------------------------------------------
(* SpecParams: _resolve_parameters applied to one parameter mapping.       *)

\* how deep a value is nested in mappings and sequences
MaxDepth == 2

K_k == <<"k">>
K_j == <<"j">>

\* {{step_1.output.p1. ... .pn}}
RefTo(path) ==
    T_open \o T_step \o <<"1", ".">> \o T_output
        \o Concat([i \in 1..Len(path) |-> <<".">> \o path[i]]) \o T_close

\* the key paths of the references
RefPaths ==
    { <<>>, <<K_k>>, <<K_k, K_j>>, <<T_output>>, <<T_output, K_k>>,
      <<K_k, T_output>> }

\* the values at the bottom of a parameter mapping
ParamLeaves ==
    {VStr(RefTo(path)) : path \in RefPaths}
        \cup { VStr(<<"a">> \o Placeholder(1)), VStr(Placeholder(2)), VStr(P_lit),
               VNum(5), VNull, VBool(FALSE) }

\* a value under up to d levels of single-entry mappings and sequences
RECURSIVE Nest(_, _)
Nest(v, d) ==
    IF d = 0 THEN {v}
    ELSE Nest(v, d - 1)
         \cup {VDict(<< <<P_y, w>> >>) : w \in Nest(v, d - 1)}
         \cup {VList(<<VNum(0), w>>) : w \in Nest(v, d - 1)}

ParamValues == UNION {Nest(v, MaxDepth) : v \in ParamLeaves}

\* the parameter mappings: one entry, or a literal entry before it
ParamMappings ==
    { << <<P_x, v>> >> : v \in ParamValues }
        \cup { << <<P_z, VStr(P_lit)>>, <<P_x, v>> >> : v \in ParamLeaves }

\* what step 1 may have returned
ParamOutputs ==
    { VStr(<<"a", "b">>), VNum(7),
      VDict(<< <<K_k, VStr(<<"v">>)>> >>),
      VDict(<< <<K_k, VDict(<< <<K_j, VNum(1)>>, <<T_output, VNum(2)>> >>)>>,
               <<T_output, VDict(<< <<K_k, VNum(3)>> >>)>> >>) }

\* contexts in which step 1 has a result and step 2 has none
ParamContexts ==
    { [step_results |-> << <<1, StepResult(1, "success", o1, NoError)>> >>,
       variables |-> <<>>] : o1 \in ParamOutputs }

InitParams ==
    /\ pc = "params"
    /\ rsParams \in ParamMappings
    /\ context \in ParamContexts
    /\ rsResolved = NotResolved
    /\ rsValue = <<>>
    /\ rsOut = NotResolved
    /\ RegistryIdle
    /\ CallsIdle
    /\ ExecIdle
    /\ DecodeIdle
    /\ ReactIdle
    /\ PairIdle

ResolveParameters ==
    /\ pc = "params"
    /\ rsResolved' = resolve_parameters(rsParams, context)
    /\ pc' = "resolved"
    /\ UNCHANGED <<runs, rsValue, rsOut, rsParams, context, registryVars, callVars,
                   execVars, decodeVars, reactVars>>

NextParams == ResolveParameters

SpecParams == InitParams /\ [][NextParams]_vars

-----------------------------------------------------------------------------
(* SpecDecode: chat_with_json on one answer of the oracle.                 *)

\* entries per object
MaxPairs == 2

\* the string values and keys the answers carry
DecoderStrings ==
    { <<>>, <<"a">>, <<"q", "\"", "t">>, <<"b", "\\">>, <<"x", "\n", "y">>,
      <<"\t", "z">>, <<"\r", "\n">>, <<"{">>, <<"}", "U+0060">>,
      <<"\\", "u", "0", "0", "4", "1">>, <<"U+0008", "U+001f", "\\", "n">> }

DecoderKeys == { <<"k">>, <<"a", " ", "b">>, <<"n", "\t">> }

DecoderMembers ==
    {VNull, VBool(TRUE), VBool(FALSE), VNum(0), VNum(-12)}
    \cup {VStr(s) : s \in DecoderStrings}
    \cup { VList(<<>>), VList(<<VNum(1), VStr(<<"x", "\n", "y">>)>>), VDict(<<>>),
           VDict(<< <<(<<"k">>), VStr(<<"}">>)>> >>) }

DecoderEntries == {<<key, value>> : key \in DecoderKeys, value \in DecoderMembers}

\* the entries an object goes on with; k may repeat an earlier key
MoreEntries ==
    { <<(<<"k">>), VNum(7)>>, <<(<<"j">>), VStr(<<"\t">>)>>,
      <<(<<"m">>), VList(<<VStr(<<"\"">>)>>)>> }

RECURSIVE MorePairs(_)
MorePairs(n) ==
    IF n = 0 THEN {<<>>}
    ELSE MorePairs(n - 1)
         \cup {Append(p, e) : p \in {q \in MorePairs(n - 1) : Len(q) = n - 1}, e \in MoreEntries}

\* the objects the oracle answers with
DecoderObjects ==
    {VDict(<<>>)} \cup {VDict(<<e>> \o more) : e \in DecoderEntries, more \in MorePairs(MaxPairs - 1)}

\* how an answer lays an object out: the separators of json.dumps, none,
\* or line breaks and tabs between the tokens
Layouts == {"dumps", "compact", "spread"}

ItemSep(layout) ==
    CASE layout = "dumps" -> <<",", " ">>
      [] layout = "compact" -> <<",">>
      [] layout = "spread" -> <<",", "\n", " ", " ">>

KeySep(layout) ==
    CASE layout = "dumps" -> <<":", " ">>
      [] layout = "compact" -> <<":">>
      [] layout = "spread" -> <<" ", ":", "\t">>

Pad(layout) == IF layout = "spread" THEN <<"\n">> ELSE <<>>

\* a string literal with newline, carriage return and tab written as the
\* characters themselves
RECURSIVE RawEscape(_)
RawEscape(s) ==
    IF s = <<>> THEN <<>>
    ELSE (IF Head(s) \in {"\n", "\r", "\t"} THEN <<Head(s)>> ELSE JsonEscapeChar(Head(s)))
         \o RawEscape(Tail(s))

StringText(s, strings) ==
    IF strings = "raw" THEN <<"\"">> \o RawEscape(s) \o <<"\"">> ELSE JsonStringText(s)

\* the text of a value in a layout, its strings strict or raw
RECURSIVE Render(_, _, _)
RECURSIVE RenderPairs(_, _, _)
RECURSIVE RenderItems(_, _, _)
Render(x, layout, strings) ==
    CASE x.k = "str" -> StringText(x.v, strings)
      [] x.k = "dict" ->
            IF x.v = <<>> THEN <<"{", "}">>
            ELSE <<"{">> \o Pad(layout) \o RenderPairs(x.v, layout, strings)
                 \o Pad(layout) \o <<"}">>
      [] x.k = "list" ->
            IF x.v = <<>> THEN <<"[", "]">>
            ELSE <<"[">> \o Pad(layout) \o RenderItems(x.v, layout, strings)
                 \o Pad(layout) \o <<"]">>
      [] OTHER -> JsonDumps(x)

RenderPairs(pairs, layout, strings) ==
    StringText(pairs[1][1], strings) \o KeySep(layout) \o Render(pairs[1][2], layout, strings)
    \o (IF Len(pairs) > 1
        THEN ItemSep(layout) \o RenderPairs(Tail(pairs), layout, strings) ELSE <<>>)

RenderItems(items, layout, strings) ==
    Render(items[1], layout, strings)
    \o (IF Len(items) > 1
        THEN ItemSep(layout) \o RenderItems(Tail(items), layout, strings) ELSE <<>>)

\* the commentary an answer may add after the closing fence
Tails ==
    { <<>>, <<"\n", "D", "o", "n", "e", ".">>,
      <<" ", "s", "e", "e", " ", "{", "x", "}", " ", "\"", "q", "\n">>,
      <<"\n", "}", " ", "U+0060", "U+0060", "U+0060">> }

\* what surrounds the object in the answer
Wrappers ==
    {[w |-> "none"], [w |-> "padded"]}
    \cup {[w |-> "fence", tag |-> tag, tail |-> tail] : tag \in {T_fenceJson, T_fence}, tail \in Tails}

WrapText(body, wrapper) ==
    CASE wrapper.w = "none" -> body
      [] wrapper.w = "padded" -> <<" ", "\n">> \o body \o <<"\n", " ">>
      [] wrapper.w = "fence" ->
            wrapper.tag \o <<"\n">> \o body \o <<"\n">> \o T_fence \o wrapper.tail

\* the ways the oracle makes an answer
Makings ==
    [val : DecoderObjects, layout : Layouts, strings : {"strict", "raw"}, wrap : Wrappers]

AnswerText(m) == WrapText(Render(m.val, m.layout, m.strings), m.wrap)

InitDecode ==
    /\ pc = "decode"
    /\ made \in Makings \cup {NotMade}
    /\ chatOut = IF made = NotMade THEN Raise([msg |-> "oracle failure"])
                 ELSE Return(AnswerText(made))
    /\ decoded = NotDecoded
    /\ ResolverIdle
    /\ ContextIdle
    /\ RegistryIdle
    /\ CallsIdle
    /\ ExecIdle
    /\ ReactIdle
    /\ PairIdle

Decode ==
    /\ pc = "decode"
    /\ decoded' = chat_with_json(chatOut)
    /\ pc' = "decoded"
    /\ UNCHANGED <<runs, made, chatOut, context, resolverVars, registryVars, callVars,
                   execVars, reactVars>>

NextDecode == Decode

SpecDecode == InitDecode /\ [][NextDecode]_vars


-----------------------------------------------------------------------------
(* SpecReAct: one run of the ReAct loop against a scripted oracle.         *)

\* the largest iteration budget a run is given
MaxBudget == 3

\* the texts the oracle may answer with
\* a final answer and nothing else
R_final ==
    <<"F", "i", "n", "a", "l", " ", "A", "n", "s", "w", "e", "r", ":",
      " ", "4", "2">>

\* a thought, then the final answer in lower case
R_thoughtFinal ==
    <<"T", "h", "o", "u", "g", "h", "t", ":", " ", "d", "o", "n", "e",
      "\n", "f", "i", "n", "a", "l", " ", "a", "n", "s", "w", "e", "r",
      ":", " ", "o", "k", "\n">>

\* the marker with nothing after it
R_bareMarker ==
    <<"T", "h", "o", "u", "g", "h", "t", ":", " ", "h", "m", "\n", "F",
      "i", "n", "a", "l", " ", "A", "n", "s", "w", "e", "r", ":">>

\* the marker with whitespace only after it
R_blankMarker ==
    <<"F", "i", "n", "a", "l", " ", "A", "n", "s", "w", "e", "r", ":",
      " ", "\n">>

\* a well-formed action
R_action ==
    <<"T", "h", "o", "u", "g", "h", "t", ":", " ", "g", "o", "\n", "A",
      "c", "t", "i", "o", "n", ":", " ", "f", "e", "t", "c", "h", "\n",
      "A", "c", "t", "i", "o", "n", " ", "I", "n", "p", "u", "t", ":",
      " ", "{", "\"", "x", "\"", ":", " ", "\"", "a", "\"", "}">>

\* an action and a final answer in one response
R_actionFinal ==
    <<"A", "c", "t", "i", "o", "n", ":", " ", "f", "e", "t", "c", "h",
      "\n", "A", "c", "t", "i", "o", "n", " ", "I", "n", "p", "u", "t",
      ":", " ", "{", "\"", "x", "\"", ":", " ", "1", "}", "\n", "F", "i",
      "n", "a", "l", " ", "A", "n", "s", "w", "e", "r", ":", " ", "b",
      "o", "t", "h">>

\* an action whose input holds a nested object, then the marker with
\* nothing after it
R_actionBareMarker ==
    <<"A", "c", "t", "i", "o", "n", ":", " ", "f", "e", "t", "c", "h",
      "\n", "A", "c", "t", "i", "o", "n", " ", "I", "n", "p", "u", "t",
      ":", " ", "{", "\"", "x", "\"", ":", " ", "{", "\"", "y", "\"", ":",
      " ", "1", "}", "}", "\n", "F", "i", "n", "a", "l", " ", "A", "n",
      "s", "w", "e", "r", ":">>

\* an action naming no registered tool
R_unknown ==
    <<"A", "c", "t", "i", "o", "n", ":", " ", "g", "h", "o", "s", "t",
      "\n", "A", "c", "t", "i", "o", "n", " ", "I", "n", "p", "u", "t",
      ":", " ", "{", "\"", "x", "\"", ":", " ", "1", "}">>

\* an action without any Action Input
R_noInput ==
    <<"T", "h", "o", "u", "g", "h", "t", ":", " ", "t", "\n", "A", "c",
      "t", "i", "o", "n", ":", " ", "f", "e", "t", "c", "h">>

\* an input with a nested object and a brace in a string
R_nested ==
    <<"A", "c", "t", "i", "o", "n", ":", " ", "f", "e", "t", "c", "h",
      "\n", "A", "c", "t", "i", "o", "n", " ", "I", "n", "p", "u", "t",
      ":", " ", "{", "\"", "x", "\"", ":", " ", "{", "\"", "y", "\"", ":",
      " ", "\"", "}", "\"", "}", "}">>

\* an input that is not JSON
R_broken ==
    <<"A", "c", "t", "i", "o", "n", ":", " ", "f", "e", "t", "c", "h",
      "\n", "A", "c", "t", "i", "o", "n", " ", "I", "n", "p", "u", "t",
      ":", " ", "{", "\"", "x", "\"", ":", " ", "[", "1", "}">>

\* the same for a tool that requires no parameter
R_brokenCalc ==
    <<"A", "c", "t", "i", "o", "n", ":", " ", "c", "a", "l", "c", "\n",
      "A", "c", "t", "i", "o", "n", " ", "I", "n", "p", "u", "t", ":",
      " ", "{", "\"", "y", "\"", ":", " ", "[", "1", "}">>

\* no marker at all
R_prose ==
    <<"I", " ", "a", "m", " ", "n", "o", "t", " ", "s", "u", "r", "e", ".">>

\* a thought and an input, but no action
R_inputOnly ==
    <<"T", "h", "o", "u", "g", "h", "t", ":", " ", "h", "m", "\n", "A",
      "c", "t", "i", "o", "n", " ", "I", "n", "p", "u", "t", ":", " ",
      "{", "\"", "x", "\"", ":", " ", "1", "}">>

OracleTexts ==
    {R_final, R_thoughtFinal, R_bareMarker, R_blankMarker, R_action,
     R_actionFinal, R_actionBareMarker, R_unknown, R_noInput, R_nested,
     R_broken, R_brokenCalc, R_prose, R_inputOnly}

CalcTool == Tool(N_calc, <<ToolParameter(P_y, FALSE)>>)

\* the registry of the ReAct runs: fetch requires x, calc requires nothing
ReactTools == register(ExecTools, CalcTool)

\* what self.llm.chat may do in a turn
OracleAnswers ==
    {Return(text) : text \in OracleTexts} \cup {Raise([msg |-> "oracle failure"])}

\* _parse_llm_output on the texts the oracle may answer with
ParsedOutput == [output \in OracleTexts |-> parse_llm_output(output)]

\* parsed = self._parse_llm_output(llm_response), not reached when the
\* oracle call raised
ParsedOf(chat) == IF chat.ok THEN ParsedOutput[chat.val] ELSE VNull

InitReAct ==
    /\ pc = "react"
    /\ react \in {NewRun(n) : n \in 0..MaxBudget}
    /\ asked = <<>>
    /\ tools = ReactTools
    /\ registered = <<FetchTool, CalcTool>>
    /\ execLog = <<>>
    /\ ResolverIdle
    /\ ContextIdle
    /\ CallsIdle
    /\ ExecIdle
    /\ DecodeIdle
    /\ PairIdle

\* one turn of the loop of run, from the oracle call to the step record
\* and the transcript, or to the return that ends the run
Iterate ==
    /\ pc = "react"
    /\ LoopGoesOn(react.iteration, react.max_iterations)
    /\ \E chat \in OracleAnswers, outcome \in ExecOutcomes :
          /\ react' = react_iteration(react, chat, ParsedOf(chat), tools,
                                      outcome)
          /\ asked' = Append(asked, chat)
          /\ execLog' = react_log(execLog, react.iteration + 1, chat,
                                  ParsedOf(chat), tools, outcome)
    /\ pc' = IF react'.returned THEN "done" ELSE "react"
    /\ UNCHANGED <<runs, tools, registered, context, resolverVars, callVars, execVars, decodeVars>>

\* the loop's condition fails: the max_iterations result
GiveUp ==
    /\ pc = "react"
    /\ ~LoopGoesOn(react.iteration, react.max_iterations)
    /\ react' = Exhausted(react)
    /\ pc' = "done"
    /\ UNCHANGED <<runs, asked, context, resolverVars, registryVars, callVars,
                   execVars, decodeVars>>

NextReAct == Iterate \/ GiveUp

SpecReAct == InitReAct /\ [][NextReAct]_vars

\* the oracle and the tools answer, so the loop of run keeps turning
SpecReActLive == SpecReAct /\ WF_vars(NextReAct)

-----------------------------------------------------------------------------
(* Claims about the resolver (SpecResolve).                                *)

\* the code's two modes
HasPlaceholder(value) == FindAllRefs(value, 1) # <<>>

WholeValueMode(value) ==
    /\ HasPlaceholder(value)
    /\ Strip(value) = T_open \o FindAllRefs(value, 1)[1] \o T_close

EmbeddedMode(value) == HasPlaceholder(value) /\ ~WholeValueMode(value)

\* C5: when the parameter string, trimmed, is exactly {{step_N.output}} and
\* step N has a recorded result with output V, the resolved value is V
\* itself, with its type, not a text form of V.
C5_WholeValueKeepsType ==
    pc = "resolved" =>
        \A n \in 1..3 :
            (Strip(rsValue) = Placeholder(n) /\ DictHas(context.step_results, n))
                => rsOut = Return(DictGet(context.step_results, n).output)

\* a trimmed whole-value reference to a step whose output is a mapping was
\* resolved to that mapping
C5_Witness ==
    /\ pc = "resolved"
    /\ rsValue = <<" ">> \o Placeholder(1) \o <<" ">>
    /\ DictGet(context.step_results, 1).output.k = "dict"
    /\ rsOut.ok
    /\ rsOut.val.k = "dict"

\* the simultaneous replacement of every placeholder occurrence of s[i:]
\* by the text form of its own referent
RECURSIVE SimultaneousSubst(_, _, _)
SimultaneousSubst(s, i, ctx) ==
    IF i > Len(s) THEN Return(<<>>)
    ELSE LET j == RunEnd(s, i + 2)
             isMatch == /\ StartsWithAt(s, T_open, i)
                        /\ j > i + 2
                        /\ StartsWithAt(s, T_close, j)
         IN IF isMatch
            THEN LET ref == get_reference_value(Strip(SubSeq(s, i + 2, j - 1)), ctx)
                     rest == SimultaneousSubst(s, j + 2, ctx)
                 IN IF ~ref.ok THEN ref
                    ELSE IF ~rest.ok THEN rest
                    ELSE Return(RefText(ref.val) \o rest.val)
            ELSE LET rest == SimultaneousSubst(s, i + 1, ctx)
                 IN IF ~rest.ok THEN rest ELSE Return(<<s[i]>> \o rest.val)

\* C6: in embedded mode the result is the simultaneous replacement of every
\* placeholder by the text form of its own referent; all other characters,
\* text brought in by another placeholder's value included, stay as they are.
C6_EmbeddedIsSimultaneous ==
    (pc = "resolved" /\ EmbeddedMode(rsValue)
        /\ SimultaneousSubst(rsValue, 1, context).ok)
        => rsOut = Return(VStr(SimultaneousSubst(rsValue, 1, context).val))

\* where C6 does hold: no referent's text brings in a placeholder opener
C6_HoldsWithoutInjectedPlaceholders ==
    (pc = "resolved" /\ EmbeddedMode(rsValue)
        /\ SimultaneousSubst(rsValue, 1, context).ok
        /\ \A i \in 1..Len(context.step_results) :
              Find(RefText(context.step_results[i][2].output), T_open, 1) = 0)
        => rsOut = Return(VStr(SimultaneousSubst(rsValue, 1, context).val))


-----------------------------------------------------------------------------
(* Claims about the registry (SpecRegistry).                               *)

\* the required parameters of the registered tool that the call leaves out
AbsentRequired(registry, name, parameters) ==
    LET schema == DictGet(registry, name).parameters
    IN { i \in 1..Len(schema) :
            /\ schema[i].required
            /\ \A j \in 1..Len(parameters) : parameters[j][1] # schema[i].name }

ExecuteWasCalled(call) == \E i \in 1..Len(execLog) : execLog[i].call = call

\* C4: execute_tool on an unregistered name fails with tool-not-found; on a
\* registered tool with a required parameter absent it fails with a
\* missing-parameter error that names an absent required parameter (the
\* first one in the schema's order); in both cases execute is not called.
C4_RejectedBeforeExecute ==
    pc = "called" =>
        /\ ~DictHas(tools, lastCall.name) =>
              /\ lastCall.res = Raise([msg |-> "Tool not found", name |-> lastCall.name])
              /\ ~ExecuteWasCalled(callCount)
        /\ (DictHas(tools, lastCall.name)
              /\ AbsentRequired(tools, lastCall.name, lastCall.params) # {}) =>
              LET schema == DictGet(tools, lastCall.name).parameters
                  absent == AbsentRequired(tools, lastCall.name, lastCall.params)
                  first == CHOOSE i \in absent : \A j \in absent : i <= j
              IN /\ lastCall.res =
                        Raise([msg |-> "Missing required parameter",
                               param |-> schema[first].name])
                 /\ ~ExecuteWasCalled(callCount)

\* a second call, after one that did reach execute, is rejected for the
\* first of two absent required parameters and leaves the spy's log alone
C4_Witness ==
    /\ pc = "called"
    /\ callCount = 2
    /\ Len(execLog) = 1
    /\ lastCall.name = N_fetch
    /\ DictHas(tools, N_fetch)
    /\ Cardinality(AbsentRequired(tools, N_fetch, lastCall.params)) = 2
    /\ ~lastCall.res.ok
    /\ lastCall.res.err = [msg |-> "Missing required parameter", param |-> P_x]

-----------------------------------------------------------------------------
(* Claims about a run of a plan (SpecExec).                                *)

\* the result log: the StepResults in the order they were recorded
ResultLog == IF mode = "linear" THEN produced ELSE gstate.step_results

\* position k holds the first failed result of the log
FirstFailureAt(k) ==
    /\ k \in 1..Len(ResultLog)
    /\ ResultLog[k].status = "failed"
    /\ \A i \in 1..(k - 1) : ResultLog[i].status # "failed"

\* the ids of the steps at the positions up to k
IdsUpTo(k) == {plan[i].step_id : i \in 1..k}

\* C1: when the step at position k is the first to fail, in resolution or in
\* the tool, the run ends failed with an error naming that step's id, no tool
\* is invoked for a later position, and no later step enters the result log.
\* This holds for execute_plan and for the state graph.
C1_FirstFailureEndsRun ==
    \A k \in 1..Len(plan) :
        FirstFailureAt(k) =>
            /\ pc \in {"finalize", "done"}
            /\ Len(ResultLog) = k
            /\ ResultLog[k].step_id = plan[k].step_id
            /\ \A e \in 1..Len(execLog) : execLog[e].call <= k
            /\ mode = "linear" =>
                  \A j \in (k + 1)..Len(plan) :
                      plan[j].step_id \notin IdsUpTo(k)
                          => ~DictHas(context.step_results, plan[j].step_id)
            /\ pc = "done" =>
                  /\ returned.status = "failed"
                  /\ returned.error.msg = "Step failed"
                  /\ returned.error.step_id = plan[k].step_id

\* a plan of three steps whose second step failed in its tool: the run is
\* over, failed on step 2, and step 3 has no entry
C1_Witness ==
    /\ pc = "done"
    /\ mode = "linear"
    /\ Len(plan) = 3
    /\ plan[3].step_id = 3
    /\ FirstFailureAt(2)
    /\ Len(execLog) = 2
    /\ returned.status = "failed"
    /\ returned.error.step_id = plan[2].step_id
    /\ ~DictHas(context.step_results, 3)

\* the step ids the placeholders of a parameter mapping name
StepRefsOf(parameters) ==
    UNION { IF parameters[i][2].k = "str"
            THEN LET matches == FindAllStepRefs(parameters[i][2].v, 1)
                 IN {DigitsVal(matches[m], 0) : m \in 1..Len(matches)}
            ELSE {}
          : i \in 1..Len(parameters) }

\* the step ids that had a recorded result when the step at position p ran
RecordedBefore(p) ==
    {ResultLog[i].step_id : i \in 1..(IF p - 1 < Len(ResultLog) THEN p - 1 ELSE Len(ResultLog))}

\* C7: a placeholder that references a step with no recorded result makes
\* the step fail: no tool is handed parameters resolved from such a
\* placeholder (as null, or with the placeholder text left in), by either
\* resolver.
C7_UnrecordedReferenceFails ==
    \A e \in 1..Len(execLog) :
        StepRefsOf(plan[execLog[e].call].parameters) \subseteq RecordedBefore(execLog[e].call)

\* C7 as far as it holds: the Linear Executor's resolver
C7_LinearUnrecordedReferenceFails ==
    mode = "linear" => C7_UnrecordedReferenceFails

-----------------------------------------------------------------------------
(* Claims about the Structured Decoder (SpecDecode).                       *)

\* the value Python holds for a literal: a repeated key keeps its first
\* place and its last value
RECURSIVE PyValue(_)
RECURSIVE PyPairs(_, _)
PyValue(x) ==
    CASE x.k = "dict" -> VDict(PyPairs(x.v, <<>>))
      [] x.k = "list" -> VList([i \in 1..Len(x.v) |-> PyValue(x.v[i])])
      [] OTHER -> x

PyPairs(pairs, acc) ==
    IF pairs = <<>> THEN acc
    ELSE PyPairs(Tail(pairs), DictSet(acc, pairs[1][1], PyValue(pairs[1][2])))

\* the answer is a well-formed structured object: the plain decode accepts
\* it and gives a mapping
IsWellFormedObject(text) == JsonLoads(text).ok /\ JsonLoads(text).val.k = "dict"

\* some string of the value, at any depth, holds one of the characters
RECURSIVE HoldsChar(_, _)
HoldsChar(x, chars) ==
    CASE x.k = "str" -> \E i \in 1..Len(x.v) : x.v[i] \in chars
      [] x.k = "dict" ->
            \E i \in 1..Len(x.v) :
                \/ \E j \in 1..Len(x.v[i][1]) : x.v[i][1][j] \in chars
                \/ HoldsChar(x.v[i][2], chars)
      [] x.k = "list" -> \E i \in 1..Len(x.v) : HoldsChar(x.v[i], chars)
      [] OTHER -> FALSE

\* C8: on an answer that is already a well-formed structured object the
\* repair pass leaves the text unchanged, decoding returns what the plain
\* decode returns, and decoding the re-serialized value gives an equal value.
C8_WellFormedIsLeftAlone ==
    (pc = "decoded" /\ chatOut.ok /\ IsWellFormedObject(chatOut.val)) =>
        /\ fix_json_string(chatOut.val) = chatOut.val
        /\ fix_json_string(StripFences(chatOut.val)) = Strip(chatOut.val)
        /\ decoded = JsonLoads(chatOut.val)
        /\ JsonLoads(JsonDumps(decoded.val)) = decoded
        /\ chat_with_json(Return(JsonDumps(decoded.val))) = decoded

\* a well-formed answer with escapes in its strings, spread over lines, was
\* decoded to the value it was made from
C8_Witness ==
    /\ pc = "decoded"
    /\ made # NotMade
    /\ IsWellFormedObject(chatOut.val)
    /\ made.layout = "spread"
    /\ HoldsChar(made.val, {"\\"})
    /\ HoldsChar(made.val, {"\"", "\n"})
    /\ decoded = Return(PyValue(made.val))

\* the answer's strings are written with literal newline, carriage return
\* or tab characters, and nothing else is wrong with it
RawButWellFormed ==
    /\ made # NotMade
    /\ made.strings = "raw"
    /\ made.wrap.w \in {"none", "padded"}

\* C9: an answer that is well formed except for literal newline, carriage
\* return or tab characters inside its strings decodes, each such character
\* is in the decoded string at its position, and the repair pass changes
\* nothing outside the string literals.
C9_RawControlCharactersDecode ==
    (pc = "decoded" /\ RawButWellFormed) =>
        /\ decoded = Return(PyValue(made.val))
        /\ fix_json_string(StripFences(chatOut.val))
              = Render(made.val, made.layout, "strict")

\* an answer with a literal newline in the middle of a string value, laid
\* out with line breaks and tabs between its tokens, was decoded
C9_Witness ==
    /\ pc = "decoded"
    /\ RawButWellFormed
    /\ made.layout = "spread"
    /\ ~JsonLoads(chatOut.val).ok
    /\ \E i \in 1..Len(made.val.v) : made.val.v[i][2] = VStr(<<"x", "\n", "y">>)
    /\ decoded.ok
    /\ \E i \in 1..Len(decoded.val.v) : decoded.val.v[i][2] = VStr(<<"x", "\n", "y">>)

\* the answer is a well-formed object inside a code fence
FencedWellFormed ==
    /\ made # NotMade
    /\ made.strings = "strict"
    /\ made.wrap.w = "fence"

\* C10: a well-formed object in a code fence, with or without the json tag,
\* and with commentary after the closing fence, decodes to exactly that
\* object.
C10_FenceAndCommentaryIgnored ==
    (pc = "decoded" /\ FencedWellFormed) => decoded = Return(PyValue(made.val))

\* an object with a brace inside a string, in a fence without tag, followed
\* by commentary that holds braces and a quote, was decoded
C10_Witness ==
    /\ pc = "decoded"
    /\ FencedWellFormed
    /\ made.wrap.tag = T_fence
    /\ HoldsChar(VStr(made.wrap.tail), {"{"})
    /\ HoldsChar(VStr(made.wrap.tail), {"\""})
    /\ HoldsChar(made.val, {"}"})
    /\ decoded = Return(PyValue(made.val))

-----------------------------------------------------------------------------
(* Claims about the ReAct loop (SpecReAct, SpecReActLive).                  *)

\* where the Final Answer marker stands in a response, 0 when it has none
\* (in any case of the letters, as the agent's pattern takes it)
MarkerAt(text) == Find(Lower(text), T_finalMark, 1)

\* the text after the marker, without the whitespace around it
AnswerAfter(text) == Strip(From(text, MarkerAt(text) + Len(T_finalMark)))

\* the k-th oracle call returned the first response with a marker
FirstMarkerAt(k) ==
    /\ asked[k].ok
    /\ MarkerAt(asked[k].val) > 0
    /\ \A j \in 1..(k - 1) : asked[j].ok /\ MarkerAt(asked[j].val) = 0

\* the run returned completed in iteration k with the answer of asked[k]
CompletedAt(k) ==
    /\ Len(asked) = k
    /\ pc = "done"
    /\ react.status = "completed"
    /\ react.final_answer = VStr(AnswerAfter(asked[k].val))
    /\ react.total_iterations = k

\* C2: when the response of iteration k is the first to hold a Final
\* Answer marker, the run returns completed with the text after the marker
\* as final_answer and total_iterations = k, and the oracle is not called
\* again.
C2_FirstMarkerCompletes ==
    \A k \in 1..Len(asked) : FirstMarkerAt(k) => CompletedAt(k)

\* the same for markers that some text other than whitespace follows
C2_HoldsWhenTextFollows ==
    \A k \in 1..Len(asked) :
        (FirstMarkerAt(k) /\ AnswerAfter(asked[k].val) # <<>>) => CompletedAt(k)

\* every oracle call so far returned, and returned a text without marker
NeverFinal ==
    \A i \in 1..Len(asked) : asked[i].ok /\ MarkerAt(asked[i].val) = 0

\* the max_iterations result after exactly max_iterations oracle calls
BudgetSpent ==
    /\ react.status = "max_iterations"
    /\ react.total_iterations = react.max_iterations
    /\ Len(asked) = react.max_iterations

\* a run without final answer and without oracle failure is within its
\* budget while it runs, and has spent it exactly when it returns
WithinBudget ==
    NeverFinal =>
        /\ Len(asked) = react.iteration
        /\ Len(asked) <= react.max_iterations
        /\ IF pc = "done" THEN BudgetSpent
           ELSE react.status = "running" /\ ~react.returned

\* C3: with a budget N >= 0 and an oracle that never gives a Final Answer
\* and never raises, the run returns max_iterations with total_iterations
\* = N after exactly N oracle calls, whatever the iterations held: an
\* action that succeeded, an action whose tool failed, or no action.
C3_BudgetExhausted == []WithinBudget /\ <>(pc = "done")

\* a run of budget MaxBudget returned max_iterations after an iteration
\* whose tool succeeded, one whose tool failed and one without action
C3_Witness ==
    /\ pc = "done"
    /\ NeverFinal
    /\ BudgetSpent
    /\ react.max_iterations = MaxBudget
    /\ \E i \in 1..Len(react.steps) :
          react.steps[i].action # VNull /\ react.steps[i].error = NoError
    /\ \E i \in 1..Len(react.steps) :
          react.steps[i].error = [msg |-> "tool failure"]
    /\ \E i \in 1..Len(asked) : ParsedOf(asked[i]).action = VNull

-----------------------------------------------------------------------------
(* Claims about the Linear Executor's result and order (SpecExec).          *)

\* execute_plan returned completed for a plan that is not empty
LinearCompleted ==
    /\ mode = "linear"
    /\ pc = "done"
    /\ returned.status = "completed"
    /\ plan # <<>>

\* the largest step id among the steps that produced a result
LargestId == MaxOf({produced[i].step_id : i \in 1..Len(produced)})

SameValue(a, b) == a.k = b.k /\ a = b

\* the final output is the output of a step with the largest id, and
\* steps_executed counts the steps that produced a result
LargestIdOutput ==
    /\ ~returned.result.empty
    /\ \E i \in 1..Len(produced) :
          /\ produced[i].step_id = LargestId
          /\ SameValue(returned.result.final_output, produced[i].output)
    /\ returned.result.steps_executed = Len(produced)

\* the step ids of the plan are pairwise distinct
UniqueIds ==
    \A i, j \in 1..Len(plan) : plan[i].step_id = plan[j].step_id => i = j

RECURSIVE ContextAfter(_)
ContextAfter(n) ==
    IF n = 0 THEN [step_results |-> <<>>, variables |-> <<>>]
    ELSE add_step_result(ContextAfter(n - 1), produced[n])

\* the call of execute that the step at list position i makes, if any,
\* with its parameters resolved as rp
CallOf(i, rp) ==
    IF /\ rp.ok
       /\ DictHas(tools, plan[i].tool)
       /\ validate_parameters(DictGet(tools, plan[i].tool), rp.val).ok
    THEN <<[call |-> i, tool |-> plan[i].tool, params |-> rp.val]>>
    ELSE <<>>

\* the calls of execute that the first n steps of the list make, each step
\* resolved against the results of the steps before it
RECURSIVE CallsInListOrder(_)
CallsInListOrder(n) ==
    IF n = 0 THEN <<>>
    ELSE CallsInListOrder(n - 1)
         \o CallOf(n, resolve_parameters(plan[n].parameters, ContextAfter(n - 1)))

\* C12: the Linear Executor runs the steps in the plan's list order, one
\* at a time: the i-th result is that of the i-th step, the calls of the
\* tools are those of the steps in list order, each resolved against the
\* results of the steps before it, and a plan whose steps all succeed runs
\* to its end, whatever the dependencies and the order of the ids.
C12_ListOrder ==
    mode = "linear" =>
        /\ Len(produced) <= Len(plan)
        /\ \A i \in 1..Len(produced) : produced[i].step_id = plan[i].step_id
        /\ \A i \in 1..(Len(produced) - 1) : produced[i].status = "success"
        /\ execLog = CallsInListOrder(Len(produced))
        /\ pc = "running" => idx = Len(produced) + 1
        /\ (pc = "done" /\ returned.status = "completed")
              => Len(produced) = Len(plan)

\* a completed plan whose ids are out of numeric order, whose first step
\* declares a dependency on a step that ran after it, and whose last step
\* was called with the result of the step before it
C12_Witness ==
    /\ LinearCompleted
    /\ Len(plan) = 3
    /\ plan[1].step_id > plan[2].step_id
    /\ plan[1].dependencies = <<plan[2].step_id>>
    /\ plan[3].parameters = << <<P_x, VStr(Placeholder(plan[2].step_id))>> >>
    /\ Len(execLog) = 3
    /\ execLog[3].params = << <<P_x, produced[2].output>> >>

-----------------------------------------------------------------------------
(* More claims about the ReAct loop (SpecReAct, SpecReActLive).             *)

\* the statuses a run may return
TerminalStatuses == {"completed", "max_iterations", "failed"}

\* the oracle was called at most max_iterations times, execute at most
\* once per oracle call, and a run that returned has a terminal status
BoundedRun ==
    /\ Len(asked) <= react.max_iterations
    /\ Len(execLog) <= Len(asked)
    /\ \A i \in 1..Len(execLog) : execLog[i].call \in 1..Len(asked)
    /\ \A i, j \in 1..Len(execLog) : execLog[i].call = execLog[j].call => i = j
    /\ IF pc = "done"
       THEN react.returned /\ react.status \in TerminalStatuses
       ELSE ~react.returned /\ react.status = "running"

\* C13: when every oracle call and every tool call returns or raises, a
\* run terminates after at most max_iterations oracle calls and at most
\* one tool invocation per oracle call, and the status it returns is one
\* of completed, max_iterations and failed, never running.
C13_RunTerminates == []BoundedRun /\ <>(pc = "done")

\* a run that returned after MaxBudget oracle calls, each followed by a
\* tool invocation
C13_Witness ==
    /\ pc = "done"
    /\ react.max_iterations = MaxBudget
    /\ Len(asked) = MaxBudget
    /\ Len(execLog) = MaxBudget
    /\ react.status \in TerminalStatuses

\* the response of turn k leads run to ToolRegistry.execute_tool
ActsAt(k) == asked[k].ok /\ CallsTool(ParsedOf(asked[k]))

\* what execute_tool raises for the action of turn k before the tool's
\* execute is reached (an unknown name, a missing required parameter),
\* and otherwise a success
BeforeExecute(k) ==
    execute_tool(tools, ParsedOf(asked[k]).action.v,
                 ParsedOf(asked[k]).action_input.v, Return(VNull)).res

HasStep(k) == \E i \in 1..Len(react.steps) : react.steps[i].step_num = k

StepOf(k) ==
    react.steps[CHOOSE i \in 1..Len(react.steps) : react.steps[i].step_num = k]

\* the two messages turn k appended: the response, then the observation
FedBack(k, observation) ==
    /\ Len(react.messages) >= 2 * k + 1
    /\ react.messages[2 * k] = [role |-> "assistant", content |-> asked[k].val]
    /\ react.messages[2 * k + 1] =
          [role |-> "user",
           content |-> [kind |-> "observation", observation |-> observation]]

\* the record and the transcript of a turn whose tool call raised e, and
\* the run going on after it: only the spent budget ends it
FailureFedBack(k, e) ==
    /\ StepOf(k).error = e
    /\ StepOf(k).observation = [kind |-> "tool failed", error |-> e]
    /\ FedBack(k, StepOf(k).observation)
    /\ Len(asked) = k =>
          /\ pc = "done" => react.status = "max_iterations"
          /\ k < react.max_iterations =>
                pc = "react" /\ react.status = "running" /\ ENABLED Iterate

\* C14: an exception raised by the tool invocation of turn k - an unknown
\* tool name and a missing required parameter included - does not end the
\* run: the step record of k has the error and an observation that holds
\* the error message, the observation is appended to the transcript, and
\* the oracle is called again when k < max_iterations.
C14_ToolFailureGoesOn ==
    \A k \in 1..Len(asked) :
        ActsAt(k) =>
            /\ HasStep(k)
            /\ ~BeforeExecute(k).ok => StepOf(k).error = BeforeExecute(k).err
            /\ StepOf(k).error # NoError => FailureFedBack(k, StepOf(k).error)

\* three turns in a row failed, one for an unknown tool, one for a
\* missing parameter and one in the tool's execute, and the run goes on
C14_Witness ==
    /\ pc = "react"
    /\ Len(asked) = 3
    /\ Len(react.steps) = 3
    /\ \E i \in 1..3 : react.steps[i].error = [msg |-> "Tool not found", name |-> N_ghost]
    /\ \E i \in 1..3 : react.steps[i].error = [msg |-> "Missing required parameter", param |-> P_x]
    /\ \E i \in 1..3 : react.steps[i].error = [msg |-> "tool failure"]
    /\ Len(execLog) = 1
    /\ Len(react.messages) = 7

\* the response of turn k holds a Final Answer marker
MarkedAt(k) == asked[k].ok /\ MarkerAt(asked[k].val) > 0

\* execute was not called in turn k
NoToolAt(k) == \A i \in 1..Len(execLog) : execLog[i].call # k

\* the run completed in turn k without a tool call
CompletedWithoutTool(k) ==
    /\ Len(asked) = k
    /\ pc = "done"
    /\ react.status = "completed"
    /\ NoToolAt(k)

\* C15: a response that holds a Final Answer marker completes the run in
\* that iteration with no tool invoked, also when the same response holds
\* an Action and an Action Input.
C15_MarkerWinsOverAction ==
    \A k \in 1..Len(asked) : MarkedAt(k) => CompletedWithoutTool(k)

\* the same for markers that some text other than whitespace follows
C15_HoldsWhenTextFollows ==
    \A k \in 1..Len(asked) :
        (MarkedAt(k) /\ AnswerAfter(asked[k].val) # <<>>)
            => CompletedWithoutTool(k)

\* the response of turn k holds no Final Answer marker and no action
\* that the parser extracts
NothingAt(k) ==
    /\ asked[k].ok
    /\ MarkerAt(asked[k].val) = 0
    /\ ParsedOf(asked[k]).action = VNull

\* the two messages such a turn appended: the response, then the
\* corrective instruction
Reminded(k) ==
    /\ Len(react.messages) >= 2 * k + 1
    /\ react.messages[2 * k] = [role |-> "assistant", content |-> asked[k].val]
    /\ react.messages[2 * k + 1] =
          [role |-> "user", content |-> [kind |-> "format reminder"]]

\* the turn took one iteration of the budget, and the loop went on to
\* its next turn, or to its end when the budget is spent
CountedAndGoesOn(k) ==
    /\ react.iteration = Len(asked)
    /\ Len(asked) <= react.max_iterations
    /\ Len(asked) = k =>
          /\ pc = "done" => react.status = "max_iterations"
          /\ k < react.max_iterations =>
                pc = "react" /\ react.status = "running" /\ ENABLED Iterate

\* C16: a response with neither a Final Answer nor an extractable action
\* invokes no tool; the response and a corrective instruction are
\* appended to the transcript, the loop goes to its next iteration, and
\* the iteration counts against max_iterations.
C16_NoActionTakesATurn ==
    \A k \in 1..Len(asked) :
        NothingAt(k) => NoToolAt(k) /\ Reminded(k) /\ CountedAndGoesOn(k)

\* two turns without action, one of them with a thought and an input,
\* took two iterations of a budget of three and called no tool
C16_Witness ==
    /\ pc = "react"
    /\ react.max_iterations = 3
    /\ Len(asked) = 2
    /\ NothingAt(1)
    /\ NothingAt(2)
    /\ asked[1] # asked[2]
    /\ react.iteration = 2
    /\ execLog = <<>>
    /\ Reminded(2)

\* C17: an exception raised by the oracle call of iteration k ends the
\* run at once with status failed and the exception's message as error;
\* no tool is invoked in that iteration and the oracle is not called
\* again.
C17_OracleFailureEndsRun ==
    \A k \in 1..Len(asked) :
        ~asked[k].ok =>
            /\ Len(asked) = k
            /\ pc = "done"
            /\ react.returned
            /\ react.status = "failed"
            /\ react.error = asked[k].err
            /\ NoToolAt(k)
            /\ ~ENABLED NextReAct

\* the oracle raised in the third turn, after a turn that called a tool
\* and a turn without action
C17_Witness ==
    /\ pc = "done"
    /\ Len(asked) = 3
    /\ ~asked[3].ok
    /\ react.status = "failed"
    /\ react.error = [msg |-> "oracle failure"]
    /\ Len(execLog) = 1
    /\ Len(react.messages) = 5

\* the first brace of the Action Input region, 0 when the marker or the
\* brace is missing
RegionStart(output, p) ==
    IF p = 0 THEN 0
    ELSE IF BraceStart(output, p) <= Len(output) /\ output[BraceStart(output, p)] = "{"
    THEN BraceStart(output, p)
    ELSE 0

\* the region from its first brace to the brace that balances it
RegionText(output, start) ==
    IF start = 0 \/ BraceEnd(output, start, 0, FALSE, FALSE) = 0 THEN <<>>
    ELSE SubSeq(output, start, BraceEnd(output, start, 0, FALSE, FALSE))

IsMapping(loaded) == loaded.ok /\ loaded.val.k = "dict"

\* the Action Input of a response is missing or is not a mapping
InputLost(output) ==
    ~IsMapping(JsonLoads(RegionText(output,
                 RegionStart(output, Find(Lower(output), T_inputMark, 1)))))

\* the response of turn k names an action and its input cannot be had
UndecodableAt(k) ==
    /\ asked[k].ok
    /\ MarkerAt(asked[k].val) = 0
    /\ ParsedOf(asked[k]).action # VNull
    /\ InputLost(asked[k].val)

\* C18: an Action whose Action Input region is missing or cannot be
\* decoded as a mapping is fatal to the run (status failed), and the named
\* tool is not invoked with empty or substituted parameters.
C18_DecodeFailureIsFatal ==
    \A k \in 1..Len(asked) :
        UndecodableAt(k) =>
            /\ Len(asked) = k
            /\ pc = "done"
            /\ react.status = "failed"
            /\ NoToolAt(k)

\* what the code does instead: the action's input is the empty mapping,
\* the registry is asked to run the tool with it, and the turn ends as any
\* other tool turn
C18_EmptyInputInstead ==
    \A k \in 1..Len(asked) :
        UndecodableAt(k) =>
            /\ StepOf(k).action_input = VDict(<<>>)
            /\ Len(asked) = k => react.status # "failed"
            /\ DictHas(tools, StepOf(k).action.v)
               /\ validate_parameters(DictGet(tools, StepOf(k).action.v), <<>>).ok
                  => \E i \in 1..Len(execLog) :
                        execLog[i] = [call |-> k, tool |-> StepOf(k).action.v,
                                      params |-> <<>>]

\* a run of budget 2 whose first response had no Action Input and whose
\* second had one that does not decode, for a tool that requires nothing
C18_EmptyInputReached ==
    /\ pc = "done"
    /\ Len(asked) = 2
    /\ asked[1] = Return(R_noInput)
    /\ asked[2] = Return(R_brokenCalc)
    /\ react.status = "max_iterations"
    /\ \E i \in 1..Len(execLog) : execLog[i].call = 2 /\ execLog[i].params = <<>>

-----------------------------------------------------------------------------
(* Tool Registry: what execute_tool hands back after execute ran.          *)

\* the call in lastCall reached the tool's execute
ExecuteRan == pc = "called" /\ ExecuteWasCalled(callCount)

\* an error that names the tool it came from
NamesTool(err, name) == "tool" \in DOMAIN err /\ err.tool = name

\* C19: an exception raised by a tool's execute reaches the caller of
\* execute_tool as a tool-execution error that carries the tool's name and
\* the original message; a successful return value is passed through
\* unchanged.
C19_FailureCarriesToolName ==
    ExecuteRan =>
        IF lastCall.res.ok
        THEN lastCall.res \in ToolOutcomes
        ELSE /\ NamesTool(lastCall.res.err, lastCall.name)
             /\ \E raised \in ToolOutcomes :
                   ~raised.ok /\ lastCall.res.err.msg = raised.err.msg

\* what the code does instead: whatever execute did, a return or a raise,
\* is what the caller gets, and the raised error names no tool
C19_OutcomeAsItIs ==
    ExecuteRan =>
        /\ lastCall.res \in ToolOutcomes
        /\ ~lastCall.res.ok => ~NamesTool(lastCall.res.err, lastCall.name)

\* execute raised in a call that passed the validation of a tool with
\* required parameters
C19_ExecuteRaised ==
    /\ ExecuteRan
    /\ lastCall.name = N_fetch
    /\ lastCall.params # <<>>
    /\ lastCall.res = Raise([msg |-> "tool failure"])

-----------------------------------------------------------------------------
(* Tool Registry: the registry after a sequence of register calls.         *)

\* the names of the tools in regs, each at its first registration
RECURSIVE NamesInOrder(_, _)
NamesInOrder(regs, seen) ==
    IF regs = <<>> THEN <<>>
    ELSE IF Head(regs).name \in seen THEN NamesInOrder(Tail(regs), seen)
    ELSE <<Head(regs).name>> \o NamesInOrder(Tail(regs), seen \cup {Head(regs).name})

RegisteredAs(regs, name) == {i \in 1..Len(regs) : regs[i].name = name}

\* the tool most recently registered under name
LatestOf(regs, name) ==
    regs[CHOOSE i \in RegisteredAs(regs, name) : \A j \in RegisteredAs(regs, name) : j <= i]

\* the description made from the register calls alone: the schema of the
\* latest tool of each name, the names in the order given
DescriptionOf(regs, names) ==
    JsonDumpsIndent(VList([i \in 1..Len(names) |-> to_llm_schema(LatestOf(regs, names[i]))]), 0)

\* C20: after any sequence of register calls the registry holds one tool per
\* distinct name, get_tool returns the tool most recently registered under
\* a name (and fails for a name never registered), and list_tools and the
\* schema description enumerate the names in the order of their (first)
\* registration, so the description is a function of the register calls.
C20_RegistryFollowsRegistrations ==
    /\ Len(tools) = Cardinality({registered[i].name : i \in 1..Len(registered)})
    /\ \A i, j \in 1..Len(tools) : tools[i][1] = tools[j][1] => i = j
    /\ \A name \in ToolNames :
          get_tool(tools, name) =
             IF RegisteredAs(registered, name) = {}
             THEN Raise([msg |-> "Tool not found", name |-> name])
             ELSE Return(LatestOf(registered, name))
    /\ list_tools(tools) = NamesInOrder(registered, {})
    /\ get_all_schemas_for_llm(tools)
          = DescriptionOf(registered, NamesInOrder(registered, {}))

\* fetch was registered, then calc, then another tool under the name fetch
C20_Witness ==
    /\ Len(registered) = 3
    /\ registered[1].name = N_fetch
    /\ registered[2].name = N_calc
    /\ registered[3].name = N_fetch
    /\ registered[3] # registered[1]
    /\ list_tools(tools) = <<N_fetch, N_calc>>
    /\ get_tool(tools, N_fetch) = Return(registered[3])
    /\ Len(get_all_schemas_for_llm(tools)) > 0

-----------------------------------------------------------------------------
(* Linear Executor: the references of a step.                              *)

\* the step ids a step refers to: its dependencies and its placeholders
ReferencedBy(step) ==
    {step.dependencies[i] : i \in 1..Len(step.dependencies)}
        \cup StepRefsOf(step.parameters)

\* a step before position k has the id, the id is smaller than that of the
\* step at k, and it produced a result
EarlierSmaller(k, id) ==
    \E j \in 1..(k - 1) :
        /\ plan[j].step_id = id
        /\ id < plan[k].step_id
        /\ produced[j].status = "success"

\* C21: for every step M that execute_plan runs, each step id referenced in
\* M's dependencies or in a placeholder of M's parameters belongs to a step of
\* the plan with a smaller id that has already produced a result, or the
\* execution of M fails.
C21_ReferencesResolveOrFail ==
    mode = "linear" =>
        \A k \in 1..Len(produced) :
            \/ \A id \in ReferencedBy(plan[k]) : EarlierSmaller(k, id)
            \/ produced[k].status = "failed"

\* what the code does instead: only placeholders count, and for them an
\* earlier result under the id, smaller or not
C21_PlaceholdersNeedAResult ==
    mode = "linear" =>
        \A k \in 1..Len(produced) :
            \/ \A id \in StepRefsOf(plan[k].parameters) :
                  \E j \in 1..(k - 1) : plan[j].step_id = id
            \/ produced[k].status = "failed"

\* a one-step plan whose step depends on a step the plan does not have,
\* and succeeded
C21_DependencyIgnored ==
    /\ mode = "linear"
    /\ Len(plan) = 1
    /\ plan[1].dependencies = <<1>>
    /\ plan[1].step_id = 3
    /\ Len(produced) = 1
    /\ produced[1].status = "success"

-----------------------------------------------------------------------------
(* ReAct run: the step records.                                            *)

\* C22: at termination the steps list holds exactly one step record for
\* each iteration that was started, in iteration order, with step_num
\* 1, 2, ..., n without gaps.
C22_OneRecordPerIteration ==
    pc = "done" =>
        /\ Len(react.steps) = Len(asked)
        /\ \A i \in 1..Len(react.steps) : react.steps[i].step_num = i

\* the response of iteration k gave the parser neither a final answer nor
\* an action
Actionless(k) ==
    /\ asked[k].ok
    /\ ~Truthy(ParsedOf(asked[k]).final_answer)
    /\ ~Truthy(ParsedOf(asked[k]).action)

\* what the code does instead: the records are in iteration order, and an
\* iteration has a record unless its response held neither a final answer
\* nor an action
C22_RecordUnlessNoAction ==
    /\ \A i, j \in 1..Len(react.steps) :
          i < j => react.steps[i].step_num < react.steps[j].step_num
    /\ \A i \in 1..Len(react.steps) : react.steps[i].step_num \in 1..Len(asked)
    /\ \A k \in 1..Len(asked) : HasStep(k) <=> ~Actionless(k)

\* a finished run of three iterations whose second had no action: the
\* records are those of iterations 1 and 3
C22_GapReached ==
    /\ pc = "done"
    /\ Len(asked) = 3
    /\ NothingAt(2)
    /\ Len(react.steps) = 2
    /\ react.steps[1].step_num = 1
    /\ react.steps[2].step_num = 3

-----------------------------------------------------------------------------
(* Linear Executor: the outcome of a run.                                  *)

\* the messages of the exceptions a step can end with
FailureMessages ==
    {"Step not executed yet", "Invalid reference format", "Tool not found",
     "Missing required parameter", "tool failure"}

\* the result of a failed step: no output, and the message of the exception
\* that ended it - the tool's own when execute was called
FailedResult(k) ==
    /\ produced[k].output = VNull
    /\ produced[k].error.msg \in FailureMessages
    /\ ExecuteWasCalled(k) <=> produced[k].error = [msg |-> "tool failure"]
    /\ ~DictHas(tools, plan[k].tool) =>
          produced[k].error.msg \in {"Tool not found", "Step not executed yet",
                                     "Invalid reference format"}

\* C23: execute_plan never raises because of a step-level failure: every
\* attempted step gives a result, success or failed, the failed one with null
\* output and the exception's message as error, and the run returns one
\* outcome, completed exactly when every step of the plan produced a success
\* result (an empty plan completes), failed otherwise.
C23_AlwaysOneOutcome ==
    mode = "linear" =>
        /\ (pc = "running" /\ idx <= Len(plan)) =>
              \A outcome_ \in ExecOutcomes :
                  execute_step(plan[idx], context, tools, outcome_).result.status
                      \in {"success", "failed"}
        /\ \A k \in 1..Len(produced) :
              /\ produced[k].status \in {"success", "failed"}
              /\ produced[k].status = "failed" => FailedResult(k)
        /\ pc = "done" =>
              /\ returned.status \in {"completed", "failed"}
              /\ returned.status = "completed" <=>
                    /\ Len(produced) = Len(plan)
                    /\ \A k \in 1..Len(plan) : produced[k].status = "success"
              /\ returned.status = "failed" =>
                    returned.error = StepFailedError(plan[Len(produced)],
                                                     produced[Len(produced)].error)

\* a run whose first step succeeded and whose second step named an invalid
\* reference: it returned failed with that step's error
C23_Witness ==
    /\ mode = "linear"
    /\ pc = "done"
    /\ Len(plan) = 3
    /\ Len(produced) = 2
    /\ produced[1].status = "success"
    /\ produced[2].status = "failed"
    /\ produced[2].error.msg = "Invalid reference format"
    /\ returned.status = "failed"

-----------------------------------------------------------------------------
(* Claims about _resolve_parameters (SpecParams).                          *)

ConsItem(first, rest) ==
    IF ~first.ok THEN first
    ELSE IF ~rest.ok THEN rest
    ELSE Return(<<first.val>> \o rest.val)

\* the substitution of every placeholder of a value, at any depth
RECURSIVE DeepResolve(_, _)
RECURSIVE DeepResolvePairs(_, _)
RECURSIVE DeepResolveItems(_, _)
DeepResolve(x, ctx) ==
    CASE x.k = "str" -> resolve_value(x.v, ctx)
      [] x.k = "dict" -> AsDict(DeepResolvePairs(x.v, ctx))
      [] x.k = "list" -> AsList(DeepResolveItems(x.v, ctx))
      [] OTHER -> Return(x)

DeepResolvePairs(pairs, ctx) ==
    IF pairs = <<>> THEN Return(<<>>)
    ELSE ConsPair(Head(pairs)[1], DeepResolve(Head(pairs)[2], ctx),
                  DeepResolvePairs(Tail(pairs), ctx))

DeepResolveItems(items, ctx) ==
    IF items = <<>> THEN Return(<<>>)
    ELSE ConsItem(DeepResolve(Head(items), ctx), DeepResolveItems(Tail(items), ctx))

\* two outcomes of a resolution are the same: the same mapping, compared as
\* text, or both an error
SameResolution(a, b) ==
    /\ a.ok = b.ok
    /\ a.ok => JsonDumps(VDict(a.val)) = JsonDumps(VDict(b.val))

\* C24: after resolving a step's parameters every placeholder at every
\* nesting depth has been substituted - in string values of nested mappings,
\* in strings inside sequences, and in mappings or sequences nested inside
\* sequences - and non-string leaves are passed through unchanged.
C24_EveryDepthResolved ==
    pc = "resolved" =>
        SameResolution(rsResolved, DeepResolvePairs(rsParams, context))

\* a sequence holds a mapping or a sequence, at any depth of the value
RECURSIVE ContainerInSequence(_)
ContainerInSequence(x) ==
    CASE x.k = "dict" -> \E i \in 1..Len(x.v) : ContainerInSequence(x.v[i][2])
      [] x.k = "list" ->
            \E i \in 1..Len(x.v) :
                x.v[i].k \in {"dict", "list"} \/ ContainerInSequence(x.v[i])
      [] OTHER -> FALSE

\* what the code does: C24 for the parameters in which no sequence holds a
\* mapping or a sequence
C24_ResolvedOutsideSequences ==
    (pc = "resolved" /\ ~ContainerInSequence(VDict(rsParams))) =>
        SameResolution(rsResolved, DeepResolvePairs(rsParams, context))

\* and an item of a sequence that is a mapping or a sequence is handed on
\* as it is, placeholders included
C24_NestedInSequenceKept ==
    /\ pc = "resolved"
    /\ rsParams = << <<P_x, VList(<<VNum(0), VDict(<< <<P_y, VStr(Placeholder(1))>> >>)>>)>> >>
    /\ rsResolved.ok
    /\ JsonDumps(VDict(rsResolved.val)) = JsonDumps(VDict(rsParams))

\* value[k1][k2]...[km] as dict.get reads it: null for an absent key, and an
\* error when the value a key is looked up on is not a mapping
RECURSIVE Lookups(_, _)
Lookups(value, keys) ==
    IF keys = <<>> THEN Return(value)
    ELSE IF value.k = "dict" THEN Lookups(DictGet(value.v, Head(keys)), Tail(keys))
    ELSE Raise([msg |-> "Cannot access on non-dict value", part |-> Head(keys)])

\* the parameters are the single entry x: {{step_1.output.k1. ... .km}}
RefersBy(path) == rsParams = << <<P_x, VStr(RefTo(path))>> >>

\* the resolution gave x the outcome of the lookups, or failed as they did
ResolvedAs(looked) ==
    /\ rsResolved.ok = looked.ok
    /\ looked.ok =>
          JsonDumps(VDict(rsResolved.val)) = JsonDumps(VDict(<< <<P_x, looked.val>> >>))
    /\ ~looked.ok => rsResolved.err = looked.err

\* C25: for a reference step_N.output.k1. ... .km the result is obtained
\* from step N's output by the successive key lookups k1, ..., km, every
\* segment after the first output token being a key lookup, a segment named
\* output included; a lookup on a value that is not a mapping fails.
C25_PathIsKeyLookups ==
    pc = "resolved" =>
        \A path \in RefPaths :
            RefersBy(path) =>
                ResolvedAs(Lookups(DictGet(context.step_results, 1).output, path))

\* what the code does: every segment named output is skipped, wherever it
\* stands, and the other segments are the key lookups
SkipOutput(path) == SelectSeq(path, LAMBDA part : part # T_output)

C25_OutputSegmentsSkipped ==
    pc = "resolved" =>
        \A path \in RefPaths :
            RefersBy(path) =>
                ResolvedAs(Lookups(DictGet(context.step_results, 1).output,
                                   SkipOutput(path)))

\* {{step_1.output.output.k}} on an output that has the key output gave the
\* value under k of the output itself
C25_OutputKeySkipped ==
    /\ pc = "resolved"
    /\ RefersBy(<<T_output, K_k>>)
    /\ DictGet(context.step_results, 1).output.k = "dict"
    /\ DictHas(DictGet(context.step_results, 1).output.v, T_output)
    /\ rsResolved.ok
    /\ JsonDumps(rsResolved.val[1][2])
         = JsonDumps(DictGet(DictGet(context.step_results, 1).output.v, K_k))

-----------------------------------------------------------------------------
(* Linear Executor: the result log of the context.                         *)

SameResult(a, b) ==
    /\ a.step_id = b.step_id
    /\ a.status = b.status
    /\ SameValue(a.output, b.output)
    /\ a.error = b.error

\* the ids of the attempted steps are pairwise distinct
AttemptedIdsDistinct ==
    \A i, j \in 1..Len(produced) : produced[i].step_id = produced[j].step_id => i = j

\* the log of the context holds the result of every attempted step, in
\* execution order
LogHoldsEveryResult ==
    /\ Len(context.step_results) = Len(produced)
    /\ \A i \in 1..Len(produced) : SameResult(context.step_results[i][2], produced[i])

\* C26: for every plan, whether or not its step ids are distinct, each
\* attempted step contributes exactly one entry to the result log, entries
\* appear in execution order, and an entry once added is never replaced or
\* modified by a later step.
C26_OneEntryPerAttempt ==
    mode = "linear" => LogHoldsEveryResult

\* what the code does: the log is keyed by step id, so it holds every result
\* when the ids are distinct, and otherwise one entry per id, at the place of
\* the id's first step and with the result of its latest
C26_OneEntryPerId ==
    mode = "linear" =>
        /\ AttemptedIdsDistinct => LogHoldsEveryResult
        /\ Len(context.step_results)
              = Cardinality({produced[i].step_id : i \in 1..Len(produced)})
        /\ \A i \in 1..Len(produced) :
              (\A j \in (i + 1)..Len(produced) : produced[j].step_id # produced[i].step_id)
                  => SameResult(DictGet(context.step_results, produced[i].step_id),
                                produced[i])

\* two steps with the same id ran and the log has one entry, the second's
C26_EntryReplaced ==
    /\ mode = "linear"
    /\ pc = "done"
    /\ Len(produced) = 2
    /\ produced[1].step_id = produced[2].step_id
    /\ produced[1].output # VNull
    /\ produced[2].status = "failed"
    /\ Len(context.step_results) = 1
    /\ context.step_results[1][2].status = "failed"

-----------------------------------------------------------------------------
(* Linear Executor: the plan during a run.                                 *)

\* a plan as text: the ids, the tools, the parameters at every depth and
\* the dependencies of its steps
PlanText(steps) ==
    [i \in 1..Len(steps) |->
        <<steps[i].step_id, steps[i].tool, JsonDumps(VDict(steps[i].parameters)),
          steps[i].dependencies>>]

-----------------------------------------------------------------------------
(* SpecRepair: chat_with_json on answers whose one string value carries    *)
(* escape sequences, valid and invalid.                                    *)

\* escape sequences and characters per string value
MaxEscapes == 2

\* what a string value of an answer is written with: a character, the
\* valid escapes, \uXXXX escapes, and backslashes followed by something else
EscapePieces ==
    { <<"a">>, <<"Z">>,
      <<"\\", "n">>, <<"\\", "\"">>, <<"\\", "\\">>, <<"\\", "/">>,
      <<"\\", "u", "0", "0", "4", "1">>, <<"\\", "u", "0", "0", "E", "9">>,
      <<"\\", "s">>, <<"\\", "d">>, <<"\\", "{">>,
      <<"\\", "u", "Z", "Z">>, <<"\\", "u", "1", "2">>, <<"\\", "u">>,
      <<"\\", "\n">> }

RECURSIVE EscapeBodies(_)
EscapeBodies(n) ==
    IF n = 0 THEN {<<>>}
    ELSE EscapeBodies(n - 1) \cup {b \o p : b \in EscapeBodies(n - 1), p \in EscapePieces}

\* the answer {"k": "<body>"}
RepairAnswer(body) ==
    <<"{", "\"", "k", "\"", ":", " ", "\"">> \o body \o <<"\"", "}">>

InitRepair ==
    /\ pc = "decode"
    /\ made \in {[body |-> b] : b \in EscapeBodies(MaxEscapes)}
    /\ chatOut = Return(RepairAnswer(made.body))
    /\ decoded = NotDecoded
    /\ ResolverIdle
    /\ ContextIdle
    /\ RegistryIdle
    /\ CallsIdle
    /\ ExecIdle
    /\ ReactIdle
    /\ PairIdle

NextRepair == Decode

SpecRepair == InitRepair /\ [][NextRepair]_vars

-----------------------------------------------------------------------------
(* C28 *)

\* the body with the backslash of every invalid escape doubled, as the
\* claim has it: an escape is valid when it is one of the eight
\* single-character escapes or a u followed by four hex digits
RECURSIVE Doubled(_, _)
Doubled(body, i) ==
    IF i > Len(body) THEN <<>>
    ELSE IF body[i] # "\\" THEN <<body[i]>> \o Doubled(body, i + 1)
    ELSE IF IsSimpleEscape(body[i + 1]) THEN <<"\\", body[i + 1]>> \o Doubled(body, i + 2)
    ELSE IF body[i + 1] = "u" /\ AllHex(body, i + 2, i + 5)
    THEN SubSeq(body, i, i + 5) \o Doubled(body, i + 6)
    ELSE <<"\\", "\\", body[i + 1]>> \o Doubled(body, i + 2)

\* the string the body stands for when every invalid escape is a literal
\* backslash followed by its character
RECURSIVE Literal(_, _)
Literal(body, i) ==
    IF i > Len(body) THEN <<>>
    ELSE IF body[i] # "\\" THEN <<body[i]>> \o Literal(body, i + 1)
    ELSE IF IsSimpleEscape(body[i + 1]) THEN <<Unescape(body[i + 1])>> \o Literal(body, i + 2)
    ELSE IF body[i + 1] = "u" /\ AllHex(body, i + 2, i + 5)
    THEN <<CharOfHex(SubSeq(body, i + 2, i + 5))>> \o Literal(body, i + 6)
    ELSE <<"\\", body[i + 1]>> \o Literal(body, i + 2)

\* the body has an invalid escape at i
InvalidEscapeAt(body, i) ==
    /\ i < Len(body)
    /\ body[i] = "\\"
    /\ BackslashesBefore(body, i - 1) % 2 = 0
    /\ ~IsSimpleEscape(body[i + 1])
    /\ ~(body[i + 1] = "u" /\ AllHex(body, i + 2, i + 5))

HasInvalidEscape(body) == \E i \in 1..Len(body) : InvalidEscapeAt(body, i)

\* C28: an answer whose string value has invalid escapes is repaired by
\* doubling the backslash of each of them, a backslash-u without four hex
\* digits included, and then decodes to the string with a literal
\* backslash before the character.
C28_InvalidEscapesDoubled ==
    (pc = "decoded" /\ HasInvalidEscape(made.body))
        => /\ fix_json_string(RepairAnswer(made.body))
                = RepairAnswer(Doubled(made.body, 1))
           /\ decoded = Return(VDict(<< <<K_k, VStr(Literal(made.body, 1))>> >>))

\* the invalid escape at i is a backslash-u, or a backslash before a raw
\* control character
KeptInvalid(body, i) ==
    InvalidEscapeAt(body, i) /\ (body[i + 1] = "u" \/ IsControl(body[i + 1]))

\* What holds: the doubling and the decode are as claimed when no invalid
\* escape is a backslash-u or a backslash before a raw control character;
\* with one of those the decoder fails.
C28_OtherEscapesDoubled ==
    (pc = "decoded" /\ HasInvalidEscape(made.body))
        => IF \E i \in 1..Len(made.body) : KeptInvalid(made.body, i)
           THEN ~decoded.ok
           ELSE /\ fix_json_string(RepairAnswer(made.body))
                     = RepairAnswer(Doubled(made.body, 1))
                /\ decoded = Return(VDict(<< <<K_k, VStr(Literal(made.body, 1))>> >>))

\* a backslash-u without four hex digits has made the decoder fail
C28_ShortUnicodeFails ==
    /\ pc = "decoded"
    /\ made.body = <<"a", "\\", "u", "Z", "Z">>
    /\ ~decoded.ok

-----------------------------------------------------------------------------
(* C29 *)

\* the positions from j on that hold a brace outside the string literals;
\* inside tells whether j is within a literal
RECURSIVE BracesOutside(_, _, _)
BracesOutside(text, j, inside) ==
    IF j > Len(text) THEN {}
    ELSE IF text[j] = "\\" THEN BracesOutside(text, j + 2, inside)
    ELSE IF text[j] = "\"" THEN BracesOutside(text, j + 1, ~inside)
    ELSE (IF ~inside /\ text[j] \in {"{", "}"} THEN {j} ELSE {})
         \cup BracesOutside(text, j + 1, inside)

\* opening minus closing braces among the positions up to i
DepthAt(text, braces, i) ==
    Cardinality({j \in braces : j <= i /\ text[j] = "{"})
    - Cardinality({j \in braces : j <= i /\ text[j] = "}"})

\* the first position where the count of the braces outside string
\* literals, taken from the first opening brace, is back at zero; 0 when
\* there is no opening brace or the count never returns
RegionEnd(text) ==
    LET start == Find(text, <<"{">>, 1)
        braces == IF start = 0 THEN {} ELSE BracesOutside(text, start, FALSE)
        ends == {i \in braces : DepthAt(text, braces, i) = 0}
    IN IF ends = {} THEN 0 ELSE CHOOSE i \in ends : \A j \in ends : i <= j

\* the text the decoder works on
CleanedAnswer == fix_json_string(StripFences(chatOut.val))

DirectFails == pc = "decoded" /\ made # NotMade /\ ~JsonLoads(CleanedAnswer).ok

\* C29: when the direct decode fails, the decoder returns the decode of the
\* region from the first opening brace to the first position where the
\* count of the braces outside string literals returns to zero, and fails
\* when there is no such region or it does not decode.
C29_FallbackDecodesBalancedRegion ==
    DirectFails
        => LET text == CleanedAnswer
               start == Find(text, <<"{">>, 1)
               end == RegionEnd(text)
           IN IF end # 0 /\ JsonLoads(SubSeq(text, start, end)).ok
              THEN decoded = JsonLoads(SubSeq(text, start, end))
              ELSE ~decoded.ok

\* the direct decode failed on an object with an opening brace inside a
\* string value, followed by commentary with a closing brace that a count
\* of every brace would take for the end; the region ended before the
\* commentary and decoded to the object
C29_Witness ==
    /\ DirectFails
    /\ HoldsChar(made.val, {"{"})
    /\ HoldsChar(VStr(made.wrap.tail), {"}"})
    /\ RegionEnd(CleanedAnswer) < Len(CleanedAnswer)
    /\ BraceEnd_plain(CleanedAnswer, Find(CleanedAnswer, <<"{">>, 1), 0, FALSE, FALSE)
           > RegionEnd(CleanedAnswer)
    /\ decoded = Return(PyValue(made.val))

-----------------------------------------------------------------------------
(* C30 *)

\* the balanced-brace region of the response of turn k: from the first
\* brace after the Action Input marker to the brace that balances it,
\* braces inside string literals not counted
TurnRegion(k) ==
    RegionText(asked[k].val,
               RegionStart(asked[k].val, Find(Lower(asked[k].val), T_inputMark, 1)))

\* turn k ran an action and the region of its response decodes to a mapping
DecodableAt(k) ==
    /\ asked[k].ok
    /\ HasStep(k)
    /\ StepOf(k).action # VNull
    /\ IsMapping(JsonLoads(TurnRegion(k)))

\* turn k took mapping for its Action Input and, the tool being registered
\* and the mapping valid for it, called the tool with it
InputTaken(k, mapping) ==
    /\ StepOf(k).action_input = mapping
    /\ DictHas(tools, StepOf(k).action.v)
       /\ validate_parameters(DictGet(tools, StepOf(k).action.v), mapping.v).ok
          => \E i \in 1..Len(execLog) :
                execLog[i] = [call |-> k, tool |-> StepOf(k).action.v,
                              params |-> mapping.v]

\* C30: the Action Input of a turn is the decode of the balanced-brace
\* region found with string-aware counting, nested mappings and braces
\* inside string values included, and it is the mapping the tool is called
\* with.
C30_InputIsBalancedRegion ==
    \A k \in 1..Len(asked) :
        DecodableAt(k) => InputTaken(k, JsonLoads(TurnRegion(k)).val)

\* the region of the response of turn k ends at the first closing brace of
\* the response after its start, or where a count of every brace, those
\* inside string literals too, returns to zero
FoundByCode(k) ==
    LET output == asked[k].val
        start == RegionStart(output, Find(Lower(output), T_inputMark, 1))
        end == start + Len(TurnRegion(k)) - 1
    IN \/ Find(output, <<"}">>, start) = end
       \/ BraceEnd_plain(output, start, 0, FALSE, FALSE) = end

\* What holds: the input is the decode of the region when the region ends
\* at the first closing brace or where a count of every brace returns to
\* zero; otherwise it is the empty mapping, and the tool is called with
\* that when it requires nothing.
C30_PlainCountInstead ==
    \A k \in 1..Len(asked) :
        DecodableAt(k) =>
            InputTaken(k, IF FoundByCode(k) THEN JsonLoads(TurnRegion(k)).val
                          ELSE VDict(<<>>))

\* a run whose first response had a nested mapping as input, passed to the
\* tool in full, and whose second had a closing brace inside a string
\* value and was taken with the empty mapping
C30_BraceInStringLost ==
    /\ Len(asked) >= 2
    /\ asked[1] = Return(R_actionBareMarker)
    /\ asked[2] = Return(R_nested)
    /\ DecodableAt(1)
    /\ DecodableAt(2)
    /\ \E i \in 1..Len(execLog) :
          execLog[i] = [call |-> 1, tool |-> N_fetch,
                        params |-> << <<P_x, VDict(<< <<P_y, VNum(1)>> >>)>> >>]
    /\ StepOf(2).action_input = VDict(<<>>)
    /\ NoToolAt(2)

-----------------------------------------------------------------------------
(* C31 *)

\* the transcript of a run after n iterations: the initial user message,
\* then for each iteration the oracle's response as an assistant message
\* and a user message
PairedTranscript(messages, n) ==
    /\ Len(messages) = 2 * n + 1
    /\ messages[1] = [role |-> "user", content |-> [kind |-> "task"]]
    /\ \A k \in 1..n :
          /\ asked[k].ok
          /\ messages[2 * k] = [role |-> "assistant", content |-> asked[k].val]
          /\ messages[2 * k + 1].role = "user"

\* the transcript the next oracle call is made with
AtOracleCall == pc = "react" /\ Len(asked) = react.iteration

TranscriptGrows ==
    react.messages = SubSeq(react'.messages, 1, Len(react.messages))

\* C31: at every oracle call the transcript is the initial user message
\* followed by one (assistant response, user message) pair per earlier
\* iteration, so the roles alternate and the last message is from the
\* user; and the transcript is only ever appended to.
C31_TranscriptPairs ==
    /\ [](AtOracleCall => PairedTranscript(react.messages, react.iteration))
    /\ [][TranscriptGrows]_vars

\* an oracle call of a budget of three after a turn whose tool failed and
\* a turn without action
C31_Witness ==
    /\ AtOracleCall
    /\ react.max_iterations = 3
    /\ react.iteration = 2
    /\ HasStep(1)
    /\ StepOf(1).error # NoError
    /\ ~HasStep(2)
    /\ PairedTranscript(react.messages, 2)
    /\ react.messages[3].content.kind = "observation"
    /\ react.messages[5].content.kind = "format reminder"

-----------------------------------------------------------------------------
(* SpecPair: two runs, each Linear or Reason-Act, interleaved at their     *)
(* oracle calls and tool calls over one registry that is not registered    *)
(* to while they run.                                                      *)

\* steps per plan and iterations per ReAct run of an interleaved run
MaxTurns == 2

\* no oracle call is waiting for its turn to be acted on
NoChat == Raise([msg |-> "no call"])

\* the steps the plans of the interleaved runs are made of
PairStepPool ==
    { Step(1, N_fetch, << <<P_x, VStr(P_lit)>> >>, <<>>),
      Step(1, N_fetch, << <<P_x, VStr(<<"a">>)>> >>, <<>>),
      Step(2, N_fetch, << <<P_x, VStr(Placeholder(1))>> >>, <<1>>) }

\* what the oracle may answer in an interleaved run
PairAnswers ==
    {Return(R_action), Return(R_final), Return(R_prose),
     Raise([msg |-> "oracle failure"])}

NewContext == [step_results |-> <<>>, variables |-> <<>>]

\* a call of execute_plan before its loop: the context is built for the
\* call and the loop variable is a local
LinearRun(steps) ==
    [kind |-> "linear", plan |-> steps, idx |-> 1, context |-> NewContext,
     produced |-> <<>>, returned |-> NotReturned, r |-> NotRun,
     pending |-> NoChat, fed |-> <<>>]

\* a call of ReActAgent.run before its loop: result, messages and
\* iteration are locals
ReactRun(max_iterations) ==
    [kind |-> "react", plan |-> <<>>, idx |-> 0, context |-> NewContext,
     produced |-> <<>>, returned |-> NotReturned, r |-> NewRun(max_iterations),
     pending |-> NoChat, fed |-> <<>>]

PairRuns ==
    {LinearRun(steps) : steps \in UNION {[1..n -> PairStepPool] : n \in 0..MaxTurns}}
    \cup {ReactRun(n) : n \in 1..MaxTurns}

\* a tool whose result depends on its parameters only: it fails without
\* parameters and otherwise returns the first one under the key k
pure_execute(parameters) ==
    IF parameters = <<>> THEN Raise([msg |-> "tool failure"])
    ELSE Return(VDict(<< <<K_k, parameters[1][2]>> >>))

\* a context that every run reads from the first run
run_context_shared(rs, i) == rs[1].context

\* the context run i resolves against and records in: the one its own call
\* of execute_plan built
run_context(rs, i) == rs[i].context

\* _execute_step with the pure tool: what the tool returns is decided by
\* the parameters the step resolves to
pure_step(step, ctx, registry) ==
    LET resolved_params == resolve_parameters(step.parameters, ctx)
    IN execute_step(step, ctx, registry,
                    IF resolved_params.ok THEN pure_execute(resolved_params.val)
                    ELSE Return(VNull))

\* execute_plan after _execute_step returned done: add_step_result, and the
\* return when the step failed
linear_record(run, ctx, step, done) ==
    [run EXCEPT
       !.context = add_step_result(ctx, done.result),
       !.produced = Append(@, done.result),
       !.plan = plan_after_step(run.plan, run.idx, done),
       !.returned = IF StopsRun(done.result)
                    THEN [status |-> "failed",
                          error |-> StepFailedError(step, done.result.error)]
                    ELSE @,
       !.idx = IF StopsRun(done.result) THEN @ ELSE @ + 1]

\* one turn of the loop of execute_plan for run i, or the return after it
linear_turn(rs, i, registry) ==
    IF rs[i].idx > Len(rs[i].plan)
    THEN [rs[i] EXCEPT !.returned = [status |-> "completed",
                                     result |-> generate_final_output(run_context(rs, i))]]
    ELSE linear_record(rs[i], run_context(rs, i), rs[i].plan[rs[i].idx],
                       pure_step(rs[i].plan[rs[i].idx], run_context(rs, i), registry))

\* what the tool of a ReAct turn does with the parameters it is given
ReactOutcome(parsed) ==
    IF parsed # VNull /\ CallsTool(parsed) THEN pure_execute(parsed.action_input.v)
    ELSE Return(VNull)

\* a ReAct run goes on by one boundary: the oracle call of an iteration
\* (chat is what it returned or raised), the rest of that iteration with
\* its tool call, or the statements after the loop
react_turn(rs, i, registry, chat) ==
    LET run == rs[i]
        parsed == ParsedOf(run.pending)
    IN IF run.pending # NoChat
       THEN [run EXCEPT !.r = react_iteration(run.r, run.pending, parsed,
                                              registry, ReactOutcome(parsed)),
                        !.pending = NoChat]
       ELSE IF LoopGoesOn(run.r.iteration, run.r.max_iterations)
       THEN [run EXCEPT !.pending = chat]
       ELSE [run EXCEPT !.r = Exhausted(run.r)]

\* run i after its next boundary, with the input of that boundary noted
run_turn(rs, i, registry, chat) ==
    [(IF rs[i].kind = "linear" THEN linear_turn(rs, i, registry)
      ELSE react_turn(rs, i, registry, chat))
     EXCEPT !.fed = Append(@, chat)]

RunOver(run) ==
    IF run.kind = "linear" THEN run.returned # NotReturned ELSE run.r.returned

\* the run is at an oracle call
AtChat(run) ==
    /\ run.kind = "react"
    /\ run.pending = NoChat
    /\ LoopGoesOn(run.r.iteration, run.r.max_iterations)

InitPair ==
    /\ pc = "pair"
    /\ runs \in [1..2 -> PairRuns]
    /\ tools = ReactTools
    /\ registered = <<FetchTool, CalcTool>>
    /\ execLog = <<>>
    /\ ResolverIdle
    /\ ContextIdle
    /\ CallsIdle
    /\ ExecIdle
    /\ DecodeIdle
    /\ ReactIdle

\* run i goes on by one boundary while the other run waits
Turn(i) ==
    /\ pc = "pair"
    /\ ~RunOver(runs[i])
    /\ \E chat \in (IF AtChat(runs[i]) THEN PairAnswers ELSE {NoChat}) :
          runs' = [runs EXCEPT ![i] = run_turn(runs, i, tools, chat)]
    /\ UNCHANGED <<pc, context, resolverVars, registryVars, callVars, execVars,
                   decodeVars, reactVars>>

NextPair == \E i \in 1..2 : Turn(i)

SpecPair == InitPair /\ [][NextPair]_vars

-----------------------------------------------------------------------------
(* C32 *)

\* the run as it was when it was called
StartOf(run) ==
    IF run.kind = "linear" THEN LinearRun(run.plan) ELSE ReactRun(run.r.max_iterations)

\* the run executed alone over the registry, fed the same inputs
RECURSIVE SoloAfter(_, _)
SoloAfter(start, fed) ==
    IF fed = <<>> THEN start
    ELSE run_turn(<<SoloAfter(start, SubSeq(fed, 1, Len(fed) - 1))>>, 1, tools,
                  fed[Len(fed)])

-----------------------------------------------------------------------------
(* SpecObserve: one iteration of a ReAct run whose tool returns results    *)
(* with text forms around the observation limit.                           *)

\* how far below and above the limit the lengths of the results go
MaxOver == 30

\* a text of n digits
DigitText(n) == [i \in 1..n |-> Digits[(i % 10) + 1]]

\* what the tool's execute may do: strings around the limit, short values
\* of the other kinds, a failure
ObserveOutcomes ==
    {Return(VStr(DigitText(n))) : n \in (ObsLimit - MaxOver)..(ObsLimit + MaxOver)}
    \cup { Return(VStr(<<>>)), Return(VNum(7)), Return(VNull),
           Return(VDict(<< <<K_k, VList(<<VNum(1), VStr(<<"x">>)>>)>> >>)),
           Return(VList(<<VStr(<<"x">>), VBool(TRUE)>>)),
           Raise([msg |-> "tool failure"]) }

\* the oracle names a registered tool with valid input, or an unknown tool
ObserveAnswers == {Return(R_action), Return(R_unknown)}

InitObserve ==
    /\ pc = "react"
    /\ react = NewRun(1)
    /\ asked = <<>>
    /\ tools = ReactTools
    /\ registered = <<FetchTool, CalcTool>>
    /\ execLog = <<>>
    /\ ResolverIdle
    /\ ContextIdle
    /\ CallsIdle
    /\ ExecIdle
    /\ DecodeIdle
    /\ PairIdle

\* one turn of the loop of run that reaches ToolRegistry.execute_tool, with
\* the call and what it returned or raised noted
Observe ==
    /\ pc = "react"
    /\ LoopGoesOn(react.iteration, react.max_iterations)
    /\ \E chat \in ObserveAnswers, outcome \in ObserveOutcomes :
          LET parsed == ParsedOf(chat)
          IN /\ react' = react_iteration(react, chat, parsed, tools, outcome)
             /\ asked' = Append(asked, chat)
             /\ execLog' = react_log(execLog, react.iteration + 1, chat, parsed,
                                     tools, outcome)
             /\ lastCall' = [name |-> parsed.action.v,
                             params |-> parsed.action_input.v,
                             res |-> execute_tool(tools, parsed.action.v,
                                                  parsed.action_input.v, outcome).res]
    /\ callCount' = callCount + 1
    /\ pc' = IF react'.returned THEN "done" ELSE "react"
    /\ UNCHANGED <<runs, tools, registered, context, resolverVars, execVars, decodeVars>>

NextObserve == Observe \/ GiveUp

SpecObserve == InitObserve /\ [][NextObserve]_vars

-----------------------------------------------------------------------------
(* C33 *)

\* the text form of a tool's result: indented JSON for a mapping, str()
\* for anything else
TextForm(value) ==
    IF value.k = "dict" THEN JsonDumpsIndent(value, 0) ELSE PyStr(value)

\* the latest tool call returned and its turn has a step record
ToolSucceeded ==
    /\ callCount = 1
    /\ lastCall.res.ok
    /\ HasStep(1)

\* C33: for every successful tool result the observation is the result's
\* text form when that has at most 3000 characters, and otherwise its
\* first 3000 characters followed by the truncation marker; it never
\* exceeds 3000 characters plus the marker's length.
C33_ObservationCapped ==
    ToolSucceeded =>
        LET text == TextForm(lastCall.res.val)
            observation == StepOf(1).observation
        IN /\ observation = IF Len(text) <= 3000 THEN text
                            ELSE SubSeq(text, 1, 3000) \o T_truncated
           /\ Len(observation) <= 3000 + Len(T_truncated)
           /\ StepOf(1).error = NoError

\* a result of 3001 characters was cut to its first 3000 and the marker,
\* and that is what went to the transcript
C33_Witness ==
    /\ ToolSucceeded
    /\ Len(TextForm(lastCall.res.val)) = 3001
    /\ Len(StepOf(1).observation) = 3000 + Len(T_truncated)
    /\ SubSeq(StepOf(1).observation, 2999, 3002) = <<"9", "0", "\n", ".">>
    /\ react.messages[3].content.observation = StepOf(1).observation

-----------------------------------------------------------------------------
(* C34 *)

\* the results in the order they were added: only the latest may have
\* failed, the others succeeded
OnlyLatestFailed ==
    \A i \in 1..Len(produced) :
        /\ produced[i].status \in {"success", "failed"}
        /\ produced[i].status = "failed" => i = Len(produced)

\* the entries of the context's log: a failed one is the result added
\* latest, the others succeeded
LogFailureIsLatest ==
    \A i \in 1..Len(context.step_results) :
        /\ context.step_results[i][2].status \in {"success", "failed"}
        /\ context.step_results[i][2].status = "failed"
              => SameResult(context.step_results[i][2], produced[Len(produced)])

\* C34: in every state of a run of execute_plan the result log holds at
\* most one failed result, which is the entry added most recently, every
\* entry added earlier has status success, and no entry has status skipped.
C34_OnlyLatestMayHaveFailed ==
    mode = "linear" =>
        /\ OnlyLatestFailed
        /\ LogFailureIsLatest
        /\ Cardinality({i \in 1..Len(context.step_results) :
                           context.step_results[i][2].status = "failed"}) <= 1

\* a run of three steps ended on its third, which failed before its tool
\* was called, after two successes
C34_Witness ==
    /\ mode = "linear"
    /\ pc = "done"
    /\ Len(produced) = 3
    /\ Len(context.step_results) = 3
    /\ produced[1].status = "success"
    /\ produced[2].status = "success"
    /\ produced[3].status = "failed"
    /\ context.step_results[3][2].status = "failed"
    /\ Len(execLog) = 2

-----------------------------------------------------------------------------
(* C35 *)

\* C35: in every terminal result, whatever its status, total_iterations
\* equals the number of oracle calls made during the run.
C35_TotalIsOracleCalls ==
    pc = "done" => react.total_iterations = Len(asked)

\* What holds: total_iterations is the number of oracle calls in a
\* completed and in a max_iterations result; in a failed result it is still
\* the 0 the result was created with.
C35_TotalUnlessFailed ==
    pc = "done" =>
        react.total_iterations = IF react.status = "failed" THEN 0 ELSE Len(asked)

\* a run failed at its second oracle call and reports no iterations
C35_FailedReportsNone ==
    /\ pc = "done"
    /\ react.status = "failed"
    /\ Len(asked) = 2
    /\ ~asked[2].ok
    /\ react.iteration = 2
    /\ react.total_iterations = 0

-----------------------------------------------------------------------------
(* C36 *)

\* C36: in every terminal result final_answer is set exactly when the
\* status is completed, and error is set exactly when the status is failed
\* or max_iterations.
C36_AnswerOrError ==
    pc = "done" =>
        /\ react.status \in TerminalStatuses
        /\ react.final_answer # VNull <=> react.status = "completed"
        /\ react.error # NoError <=> react.status \in {"failed", "max_iterations"}

\* a run completed with an answer and without error after a turn whose
\* tool had failed
C36_Witness ==
    /\ pc = "done"
    /\ react.status = "completed"
    /\ Len(asked) = 2
    /\ HasStep(1)
    /\ StepOf(1).error # NoError
    /\ Truthy(react.final_answer)
    /\ react.error = NoError

-----------------------------------------------------------------------------
(* SpecNulls: execute_plan on plans whose parameters refer to variables    *)
(* and to keys of a step's output that may be absent.                      *)

K_n == <<"n">>

\* the placeholder text {{variables.name}}
VariableRef(name) == T_open \o T_variables \o <<".">> \o name \o T_close

NullStepPool ==
    { Step(1, N_fetch, << <<P_x, VStr(P_lit)>> >>, <<>>),
      Step(2, N_fetch, << <<P_x, VStr(VariableRef(K_n))>> >>, <<>>),
      Step(3, N_fetch, << <<P_x, VStr(RefTo(<<K_j>>))>> >>, <<1>>),
      Step(4, N_fetch, << <<P_x, VStr(RefTo(<<K_k>>))>> >>, <<1>>),
      Step(5, N_fetch, << <<P_x, VStr(RefTo(<<K_j, K_k>>))>> >>, <<1>>) }

\* initial_context: none, or one that defines n
NullVariables == { <<>>, << <<K_n, VStr(<<"N">>)>> >> }

InitNulls ==
    /\ mode = "linear"
    /\ plan \in UNION {[1..n -> NullStepPool] : n \in 0..MaxSteps}
    /\ pc = "running"
    /\ tools = ExecTools
    /\ registered = <<FetchTool>>
    /\ execLog = <<>>
    /\ context \in {[step_results |-> <<>>, variables |-> v] : v \in NullVariables}
    /\ idx = 1
    /\ produced = <<>>
    /\ gstate = InitialAgentState
    /\ returned = NotReturned
    /\ ResolverIdle
    /\ CallsIdle
    /\ DecodeIdle
    /\ ReactIdle
    /\ PairIdle

NextNulls == ExecuteStep \/ Finish

SpecNulls == InitNulls /\ [][NextNulls]_vars

-----------------------------------------------------------------------------
(* C37 *)

\* the positions before i whose step has the id n
EarlierWithId(i, n) == {j \in 1..(i - 1) : produced[j].step_id = n}

\* the output recorded for id n when the step at position i ran
PriorOutput(i, n) == produced[MaxOf(EarlierWithId(i, n))].output

\* the parameter x of the step at position i is the whole-value reference
RefersWith(i, reference) == plan[i].parameters = << <<P_x, VStr(reference)>> >>

\* the step at position i refers to a variable that is not defined, or to
\* a key that the mapping recorded for step 1 does not have
RefersToAbsent(i) ==
    \/ RefersWith(i, VariableRef(K_n)) /\ ~DictHas(context.variables, K_n)
    \/ \E key \in {K_j, K_k} :
          /\ RefersWith(i, RefTo(<<key>>))
          /\ EarlierWithId(i, 1) # {}
          /\ PriorOutput(i, 1).k = "dict"
          /\ ~DictHas(PriorOutput(i, 1).v, key)

\* the step at position i did not fail before its tool ran, and the tool
\* ran with null for x
InvokedWithNull(i) ==
    /\ \E e \in 1..Len(execLog) :
          execLog[e] = [call |-> i, tool |-> N_fetch, params |-> << <<P_x, VNull>> >>]
    /\ produced[i].status = "failed" => produced[i].error = [msg |-> "tool failure"]

\* C37: a reference to a variable absent from the variable mapping, and a
\* path segment naming a key absent from a mapping, resolve to null without
\* failing the step, and the tool is invoked with the null value: the
\* validation of required parameters only looks for the name.
C37_AbsentResolvesToNull ==
    \A i \in 1..Len(produced) : RefersToAbsent(i) => InvokedWithNull(i)

\* a run completed whose second step referred to an undefined variable
\* and whose third to a key its first step's mapping lacks; both tools ran
\* with null
C37_Witness ==
    /\ pc = "done"
    /\ returned.status = "completed"
    /\ Len(produced) = 3
    /\ context.variables = <<>>
    /\ RefersWith(2, VariableRef(K_n))
    /\ RefersWith(3, RefTo(<<K_j>>))
    /\ RefersToAbsent(2)
    /\ RefersToAbsent(3)
    /\ InvokedWithNull(2)
    /\ InvokedWithNull(3)

====
